---- MODULE Spec2Model ----
(***************************************************************************)
(* Model of the fish-assistant core: the publish/subscribe bus             *)
(* (assistant/core/bus.py) and the VAD conversation loop                   *)
(* (assistant/core/ux/conversation_loop.py) with the pipeline components   *)
(* that answer its events on the same bus.                                 *)
(***************************************************************************)
EXTENDS Integers, Sequences, FiniteSets, TLC

(***************************************************************************)
(* Bounds of the bus model.                                                *)
(***************************************************************************)
MaxSubs == 2
MaxEvents == 2

Topics == {"T1", "T2"}
Handlers == {1, 2, 3, 4, 5, 6}
(* The handlers that await something before they finish. *)
SlowHandlers == {1, 2}
Sources == {"s1", "s2"}

VARIABLES subs, tasks, ev, pub, raiser, raiseKind, subscribed, subCalls, cleared

busVars == <<subs, tasks, ev, pub, raiser, raiseKind, subscribed, subCalls, cleared>>

(* ConversationLoop: its fields, the position of its run loop, the turn    *)
(* of the pipeline in flight, and the clock.                               *)
VARIABLES state, running, audio_queue, recording_buffer, silence_frame_count,
          speech_frame_count, thinking_since, speaking_since, loop_pc, chain,
          last_ux, since_entered, polled, open_episodes, last_step

convVars == <<state, running, audio_queue, recording_buffer, silence_frame_count,
              speech_frame_count, thinking_since, speaking_since, loop_pc, chain,
              last_ux, since_entered, polled, open_episodes, last_step>>

(* The pipeline on the bus: the events published, the handler tasks the    *)
(* bus created for them, the ready queue of the event loop, what the       *)
(* observers captured, the outcomes of the collaborators, and the next     *)
(* fresh correlation id (uuid4).                                           *)
VARIABLES p_events, p_tasks, p_ready, p_seen, p_env, p_next_id

pipeVars == <<p_events, p_tasks, p_ready, p_seen, p_env, p_next_id>>

(* BillyBass and its mouth motor: the mouth-sync task, the executor's      *)
(* worker thread running _move_mouth, the handler that cancels the task,   *)
(* a _stop_motor call under way, and the pins of the motor driver.         *)
VARIABLES m_task, m_worker, m_chunk, m_motor, m_prev_pwm, m_windows, m_handler, m_stop,
          m_playbacks

mouthVars == <<m_task, m_worker, m_chunk, m_motor, m_prev_pwm, m_windows, m_handler, m_stop,
               m_playbacks>>

(* BillyBass and its body motor: the flags of the component, the handlers  *)
(* of ux.state in flight, the mood tasks it created, the _body_task        *)
(* handle, the periodic idle flap, the pins of the body motor, and what    *)
(* has been called or written while the hardware is not available; and    *)
(* the animation of the ux.state handled last, with the one that was in    *)
(* effect when the periodic idle flap last wrote to the motor (history).   *)
VARIABLES b_hw, b_enabled, b_initialized, b_subscribed, b_handlers, b_tasks, b_body_task,
          b_periodic, b_body, b_calls, b_touched, b_anim

bodyVars == <<b_hw, b_enabled, b_initialized, b_subscribed, b_handlers, b_tasks, b_body_task,
              b_periodic, b_body, b_calls, b_touched, b_anim>>

(* For each block of recording_buffer: was it captured in the recording    *)
(* episode that is open now (history, for the properties).                 *)
VARIABLE in_episode

(* For each block of audio_queue: did the callback deliver it while the     *)
(* state was thinking or speaking (history, for the properties).           *)
VARIABLE stale_queued

(* BillyBass and its mouth-sync tasks: the handlers of audio.playback.start *)
(* and audio.playback.end in flight, the tasks _on_playback_start created, *)
(* and the _current_task handle.                                           *)
VARIABLES s_handlers, s_tasks, s_current_task

syncVars == <<s_handlers, s_tasks, s_current_task>>

(* The ConversationLoop on the bus: how many times each of its handlers is  *)
(* in the bus's list of its topic, the calls of start on a running loop    *)
(* and of stop so far, and what the last event delivered to the loop's     *)
(* handlers caused (history, for the properties).                          *)
VARIABLES loop_subs, life_calls, fanout

lifeVars == <<loop_subs, life_calls, fanout>>

auxVars == <<pipeVars, mouthVars, bodyVars, syncVars, lifeVars, in_episode, stale_queued>>
vars == <<busVars, convVars, auxVars>>

RECURSIVE CountIn(_, _)
CountIn(seq, x) ==
    IF seq = <<>> THEN 0
    ELSE (IF Head(seq) = x THEN 1 ELSE 0) + CountIn(Tail(seq), x)

Range(seq) == {seq[i] : i \in 1..Len(seq)}


(* Bus.__init__: no subscriptions. *)
EmptySubs == [T \in Topics |-> <<>>]

(* Bus.subscribe: self._subs[topic].append(fn) *)
SubscribeFn(s, T, fn) == [s EXCEPT ![T] = Append(@, fn)]

SubscribersOfAllTopics(s, T) == s["T1"] \o s["T2"]

(* Bus.publish: subscribers = self._subs.get(topic, []) *)
Subscribers(s, T) == s[T]

ClearOnlyFirstTopic(s) == [s EXCEPT !["T1"] = <<>>]

(* Bus.clear: self._subs.clear() *)
ClearSubs(s) == [T \in Topics |-> <<>>]

(* The status a handler gets in the scheduling loop of publish:            *)
(* create_task(fn(payload)) either raises (caught and logged) or creates   *)
(* a task that has not started yet.                                        *)
ScheduleStatus(h) ==
    IF h = raiser /\ raiseKind = "sched" THEN "sched_raised" ELSE "scheduled"

(* for fn in subscribers: tasks.append(asyncio.create_task(fn(payload))) *)
RECURSIVE ScheduleAll(_, _)
ScheduleAll(subscribers, e) ==
    IF subscribers = <<>> THEN <<>>
    ELSE <<[h |-> Head(subscribers), evt |-> e, st |-> ScheduleStatus(Head(subscribers))]>>
         \o ScheduleAll(Tail(subscribers), e)

TasksOf(e) == {i \in 1..Len(tasks) : tasks[i].evt = e}

Finished(st) == st \in {"ok", "raised", "sched_raised"}

GatherRaisesFirstException(ts, e) ==
    IF \E i \in 1..Len(ts) : ts[i].evt = e /\ ts[i].st = "raised" THEN "raised"
    ELSE IF \A i \in 1..Len(ts) : ts[i].evt = e => Finished(ts[i].st)
    THEN "returned" ELSE "pending"

GatherDoesNotWait(ts, e) == "returned"

(* results = await asyncio.gather(tasks, return_exceptions=True):          *)
(* pending until every task has finished, then returns the results; an     *)
(* exception of a task is a result, not raised into publish.               *)
GatherOutcome(ts, e) ==
    IF \A i \in 1..Len(ts) : ts[i].evt = e => Finished(ts[i].st)
    THEN "returned" ELSE "pending"

(***************************************************************************)
(* The conversation loop.                                                  *)
(***************************************************************************)
(* conversation_loop.py:25-27, vad.py:16,22 *)
BLOCKSIZE == 1024
SILENCE_FRAMES_THRESHOLD == 15
SPEECH_FRAMES_TO_START == 3
SR == 16000
FRAME_SIZE == 480
(* _detect_speech_start: at most 5 chunks per call *)
MAX_START_CHUNKS == 5
(* _stop_and_process: MIN_RECORDING_DURATION = 0.5 s, in milliseconds *)
MIN_RECORDING_DURATION_MS == 500
(* _run_loop: the timeouts of thinking and of speaking, in seconds *)
THINKING_TIMEOUT_S == 30
SPEAKING_TIMEOUT_S == 60

(* Bounds of the conversation model: the chunks the microphone queue and   *)
(* one recording hold, the seconds of one clock tick, and the age at which *)
(* a time stamp stops being counted (older than every timeout).            *)
MaxQueue == 2
MaxBuffer == 8
TickSeconds == 31
MaxAge == 62

(* A microphone block of BLOCKSIZE samples: speech ("S") or none ("N"). *)
ChunkKinds == {"S", "N"}
NoAttr == -1

Min(a, b) == IF a < b THEN a ELSE b
Max(a, b) == IF a > b THEN a ELSE b

(* The chunk (1-based) holding most samples of frame i (0-based) of the    *)
(* concatenated chunks: range(0, len(audio), FRAME_SIZE) cuts the frames.  *)
FrameChunk(i) ==
    LET first == i * FRAME_SIZE
        c == first \div BLOCKSIZE
        inC == Min((c + 1) * BLOCKSIZE, first + FRAME_SIZE) - first
    IN IF 2 * inC >= FRAME_SIZE THEN c + 1 ELSE c + 2

(* The complete frames of n concatenated chunks (len(frame) == FRAME_SIZE). *)
NumFrames(n) == (n * BLOCKSIZE) \div FRAME_SIZE

(* VAD.is_speech on frame i of the chunks: the classifier answers by the   *)
(* kind of the chunk most of the frame was taken from.                     *)
IsSpeech(chunks, i) == chunks[FrameChunk(i)] = "S"

(* speech_frames_in_window of _detect_speech_start, speech_frames of       *)
(* _detect_speech_end.                                                     *)
SpeechFrames(chunks) ==
    Cardinality({i \in 0..(NumFrames(Len(chunks)) - 1) : IsSpeech(chunks, i)})

(* max_consecutive of _detect_speech_start: the longest run of speech      *)
(* frames.                                                                 *)
RECURSIVE RunEndingAt(_, _)
RunEndingAt(chunks, i) ==
    IF i < 0 \/ ~IsSpeech(chunks, i) THEN 0 ELSE 1 + RunEndingAt(chunks, i - 1)

MaxConsecutive(chunks) ==
    LET runs == {RunEndingAt(chunks, i) : i \in 0..(NumFrames(Len(chunks)) - 1)}
    IN CHOOSE m \in runs \cup {0} : \A r \in runs : r <= m

(* audio_level < 30 of _detect_speech_start: np.abs(int16 samples).mean()  *)
(* * 100 is below 30 only for (all but) zero samples; a block with speech  *)
(* has a level far above it.                                               *)
LevelBelow30(chunks) == \A k \in 1..Len(chunks) : chunks[k] # "S"

StartThreshold(chunks) ==
    IF LevelBelow30(chunks) THEN SPEECH_FRAMES_TO_START
    ELSE Max(1, SPEECH_FRAMES_TO_START - 1)

(* self.speech_frame_count after the update of _detect_speech_start *)
UpdatedSpeechCount(count, chunks) ==
    IF MaxConsecutive(chunks) > 0 THEN Max(count, MaxConsecutive(chunks))
    ELSE IF count > 0 THEN count - 1 ELSE count

(* the first (at most) 5 chunks of the queue, and the rest *)
TakeChunks(q) == SubSeq(q, 1, Min(Len(q), MAX_START_CHUNKS))
RestChunks(q) == SubSeq(q, Min(Len(q), MAX_START_CHUNKS) + 1, Len(q))

TooShortComparesSamplesWithSeconds(buffer) ==
    Len(buffer) * BLOCKSIZE * 1000 < MIN_RECORDING_DURATION_MS

(* _stop_and_process: duration_s < MIN_RECORDING_DURATION *)
TooShort(buffer) == Len(buffer) * BLOCKSIZE * 1000 < MIN_RECORDING_DURATION_MS * SR

ThinkingTimesOutLikeSpeaking(age) == age > SPEAKING_TIMEOUT_S

(* _run_loop: time.time() - self._thinking_start_time > 30 *)
ThinkingTimedOut(age) == age > THINKING_TIMEOUT_S
(* _run_loop: time.time() - self._speaking_start_time > 60 *)
SpeakingTimedOut(age) == age > SPEAKING_TIMEOUT_S

(* the mood a ux.state event of the loop announces for a state *)
Mood(st) == IF st = "recording" THEN "listening" ELSE st

NoChain == [stage |-> "none", text |-> "none", ok |-> TRUE, duration_ms |-> 0]

(* History of the last step, for the properties: what the loop just did,  *)
(* in which state, and with what argument.                                 *)
Did(kind, from, arg) == [kind |-> kind, from |-> from, arg |-> arg]
OtherStep == Did("other", "none", 0)

(* duration_s of _stop_and_process, in milliseconds *)
DurationMs(buffer) == (Len(buffer) * BLOCKSIZE * 1000) \div SR

DetectsOnsetWhileRecording(st) == st \in {"idle", "recording"}

(* _run_loop: if self.state == "idle": await self._detect_speech_start() *)
DetectsOnsetIn(st) == st = "idle"

(* ConversationLoop.__init__ *)
(* How the pipeline is wired: whether the BillyBass hardware initialised   *)
(* (it subscribes only then), and whether the observers subscribed before  *)
(* or after the components.                                                *)
PipeEnvs == [billy : BOOLEAN, obs_first : BOOLEAN]

NoBilly == [billy |-> FALSE, obs_first |-> FALSE]

(* No pipeline: nothing was published, no handler task exists *)
PipeEmpty ==
    /\ p_events = <<>>
    /\ p_tasks = <<>>
    /\ p_ready = <<>>
    /\ p_seen = <<>>
    /\ p_env = NoBilly
    /\ p_next_id = 0

NOISE_GATE_THRESHOLD == 500
VOLUME_DIVISOR == 150
MIN_PWM == 5
MAX_PWM == 80

(* PWM.start(pin, 0) and direction pins set up as outputs: the motor rests *)
Rest == [duty |-> 0, in1 |-> FALSE, in2 |-> FALSE]

(* BillyBass after start(): no mouth-sync task, the motor at rest *)
MouthIdle ==
    /\ m_task = "none"
    /\ m_worker = "idle"
    /\ m_chunk = 0
    /\ m_playbacks = 0
    /\ m_motor = Rest
    /\ m_prev_pwm = 0
    /\ m_windows = 0
    /\ m_handler = "none"
    /\ m_stop = "no"

(* No playback event has reached BillyBass, _current_task is None *)
SyncIdle ==
    /\ s_handlers = <<>>
    /\ s_tasks = <<>>
    /\ s_current_task = 0

(* The body motor after PWM.start(pin, 0) *)
BodyRest == [duty |-> 0, in1 |-> FALSE, in2 |-> FALSE]

(* No BillyBass has been constructed yet *)
BodyIdle ==
    /\ b_hw = "unbuilt"
    /\ b_enabled = FALSE
    /\ b_initialized = FALSE
    /\ b_subscribed = FALSE
    /\ b_handlers = <<>>
    /\ b_tasks = <<>>
    /\ b_body_task = 0
    /\ b_periodic = "none"
    /\ b_body = BodyRest
    /\ b_calls = 0
    /\ b_touched = FALSE
    /\ b_anim = [now |-> "none", flap |-> "none"]

(* The topics ConversationLoop.start subscribes to *)
LoopTopics == {"audio.playback.start", "audio.playback.end", "stt.transcript"}

NoFanout == [topic |-> "none", flag |-> TRUE, invoked |-> 0, updates |-> 0]

(* A ConversationLoop that start has been called on so many times *)
LoopStarted(times) ==
    /\ loop_subs = [T \in LoopTopics |-> times]
    /\ life_calls = 0
    /\ fanout = NoFanout

ConvInit ==
    /\ PipeEmpty
    /\ LoopStarted(0)
    /\ MouthIdle
    /\ SyncIdle
    /\ BodyIdle
    /\ state = "idle"
    /\ running = FALSE
    /\ audio_queue = <<>>
    /\ recording_buffer = <<>>
    /\ in_episode = <<>>
    /\ stale_queued = <<>>
    /\ silence_frame_count = 0
    /\ speech_frame_count = 0
    /\ thinking_since = NoAttr
    /\ speaking_since = NoAttr
    /\ loop_pc = "not_started"
    /\ chain = NoChain
    /\ last_ux = "none"
    /\ since_entered = 0
    /\ polled = FALSE
    /\ open_episodes = 0
    /\ last_step = OtherStep

(* ConversationLoop.start: three calls of Bus.subscribe, which appends the  *)
(* handler to the list of its topic                                        *)
SubscribeLoop(registered) == [T \in LoopTopics |-> registered[T] + 1]

(* ConversationLoop.start, up to the first iteration of _run_loop *)
Start ==
    /\ ~running
    /\ loop_pc = "not_started"
    /\ loop_subs' = SubscribeLoop(loop_subs)
    /\ running' = TRUE
    /\ state' = "idle"
    /\ last_ux' = "idle"
    /\ since_entered' = 0
    /\ loop_pc' = "top"
    /\ last_step' = OtherStep
    /\ UNCHANGED <<audio_queue, recording_buffer, silence_frame_count, speech_frame_count,
                   thinking_since, speaking_since, chain, polled, open_episodes,
                   busVars, pipeVars, mouthVars, bodyVars, syncVars, life_calls, fanout,
                   in_episode, stale_queued>>

(* audio_callback: if self.running: self.audio_queue.put(indata.copy()) *)
AudioCallback(kind) ==
    /\ running
    /\ Len(audio_queue) < MaxQueue
    /\ state = "recording" => Len(recording_buffer) + Len(audio_queue) < MaxBuffer
    /\ audio_queue' = Append(audio_queue, kind)
    /\ stale_queued' = Append(stale_queued, state \in {"thinking", "speaking"})
    /\ last_step' = OtherStep
    /\ UNCHANGED <<state, running, recording_buffer, silence_frame_count, speech_frame_count,
                   thinking_since, speaking_since, loop_pc, chain, last_ux, since_entered,
                   polled, open_episodes,
                   busVars, pipeVars, mouthVars, bodyVars, syncVars, lifeVars,
                   in_episode>>

(* The blocks of an episode that is over, and blocks just captured *)
Abandoned(owners) == [i \in DOMAIN owners |-> FALSE]
Captured(chunks) == [i \in DOMAIN chunks |-> TRUE]

OnsetAppendsToBuffer(old, chunks) == old \o chunks

(* _detect_speech_start: self.recording_buffer = chunks.copy() *)
OnsetBuffer(old, chunks) == chunks

(* _detect_speech_start *)
DetectSpeechStart ==
    LET chunks == TakeChunks(audio_queue)
        count == UpdatedSpeechCount(speech_frame_count, chunks)
    IN IF chunks = <<>>
       THEN UNCHANGED <<state, audio_queue, recording_buffer, silence_frame_count,
                        speech_frame_count, last_ux, since_entered, open_episodes,
                        in_episode, stale_queued>>
       ELSE /\ audio_queue' = RestChunks(audio_queue)
            /\ stale_queued' = RestChunks(stale_queued)
            /\ IF SpeechFrames(chunks) >= 2 /\ count >= StartThreshold(chunks)
               THEN /\ state' = "recording"
                    /\ recording_buffer' = OnsetBuffer(recording_buffer, chunks)
                    /\ in_episode' = OnsetBuffer(Abandoned(in_episode), Captured(chunks))
                    /\ silence_frame_count' = 0
                    /\ speech_frame_count' = 0
                    /\ last_ux' = "listening"
                    /\ since_entered' = 0
                    /\ open_episodes' = open_episodes + 1
               ELSE /\ speech_frame_count' = count
                    /\ UNCHANGED <<state, recording_buffer, silence_frame_count, last_ux,
                                   since_entered, open_episodes, in_episode>>

(* _stop_and_process, up to the await of publish(audio.recorded) *)
StopAndProcess(buffer) ==
    /\ open_episodes' = open_episodes - 1
    /\ last_step' = Did("stop", state, DurationMs(buffer))
    /\ IF buffer = <<>> \/ TooShort(buffer)
       THEN /\ state' = "idle"
            /\ recording_buffer' = <<>>
            /\ in_episode' = <<>>
            /\ silence_frame_count' = IF buffer = <<>> THEN silence_frame_count + 1 ELSE 0
            /\ last_ux' = "idle"
            /\ since_entered' = 0
            /\ UNCHANGED <<loop_pc, chain>>
       ELSE /\ chain' = [stage |-> "stt", text |-> "none", ok |-> TRUE,
                         duration_ms |-> DurationMs(buffer)]
            /\ loop_pc' = "awaiting_recorded"
            /\ recording_buffer' = buffer
            /\ in_episode' = in_episode \o Captured(audio_queue)
            /\ silence_frame_count' = silence_frame_count + 1
            /\ UNCHANGED <<state, last_ux, since_entered>>

(* _detect_speech_end *)
DetectSpeechEnd ==
    LET buffer == recording_buffer \o audio_queue
        recent == SubSeq(buffer, Len(buffer) - 1, Len(buffer))
    IN /\ audio_queue' = <<>>
       /\ stale_queued' = <<>>
       /\ IF Len(buffer) >= 2
          THEN IF SpeechFrames(recent) = 0
               THEN IF silence_frame_count + 1 >= SILENCE_FRAMES_THRESHOLD
                    THEN StopAndProcess(buffer)
                    ELSE /\ silence_frame_count' = silence_frame_count + 1
                         /\ recording_buffer' = buffer
                         /\ in_episode' = in_episode \o Captured(audio_queue)
                         /\ last_step' = OtherStep
                         /\ UNCHANGED <<state, loop_pc, chain, last_ux, since_entered,
                                        open_episodes>>
               ELSE /\ silence_frame_count' = 0
                    /\ recording_buffer' = buffer
                    /\ in_episode' = in_episode \o Captured(audio_queue)
                    /\ last_step' = OtherStep
                    /\ UNCHANGED <<state, loop_pc, chain, last_ux, since_entered,
                                   open_episodes>>
          ELSE /\ recording_buffer' = buffer
               /\ in_episode' = in_episode \o Captured(audio_queue)
               /\ last_step' = OtherStep
               /\ UNCHANGED <<state, silence_frame_count, loop_pc, chain, last_ux,
                              since_entered, open_episodes>>

(* One iteration of the while loop of _run_loop in state idle. *)
LoopIdle ==
    /\ running /\ loop_pc = "top" /\ DetectsOnsetIn(state)
    /\ polled' = TRUE
    /\ DetectSpeechStart
    /\ last_step' = IF state' = "recording"
                    THEN Did("onset", state, Len(recording_buffer)) ELSE OtherStep
    /\ UNCHANGED <<running, thinking_since, speaking_since, loop_pc, chain, busVars,
                   pipeVars, mouthVars, bodyVars, syncVars, lifeVars>>

(* One iteration in state recording. *)
LoopRecording ==
    /\ running /\ loop_pc = "top" /\ state = "recording"
    /\ polled' = TRUE
    /\ DetectSpeechEnd
    /\ UNCHANGED <<running, speech_frame_count, thinking_since, speaking_since, busVars,
                   pipeVars, mouthVars, bodyVars, syncVars, lifeVars>>

(* One iteration in state thinking. *)
LoopThinking ==
    /\ running /\ loop_pc = "top" /\ state = "thinking"
    /\ polled' = TRUE
    /\ LET age == IF thinking_since = NoAttr THEN 0 ELSE thinking_since
       IN IF ThinkingTimedOut(age)
          THEN /\ state' = "idle"
               /\ thinking_since' = NoAttr
               /\ since_entered' = 0
          ELSE /\ thinking_since' = age
               /\ UNCHANGED <<state, since_entered>>
    /\ last_step' = OtherStep
    /\ UNCHANGED <<running, audio_queue, recording_buffer, silence_frame_count,
                   speech_frame_count, speaking_since, loop_pc, chain, last_ux, open_episodes,
                   busVars, auxVars>>

(* One iteration in state speaking, up to the await of publish(ux.state). *)
LoopSpeaking ==
    /\ running /\ loop_pc = "top" /\ state = "speaking"
    /\ polled' = TRUE
    /\ LET age == IF speaking_since = NoAttr THEN 0 ELSE speaking_since
       IN IF SpeakingTimedOut(age)
          THEN /\ state' = "idle"
               /\ last_ux' = "idle"
               /\ since_entered' = 0
               /\ speaking_since' = age
               /\ loop_pc' = "timeout_publish"
          ELSE /\ speaking_since' = age
               /\ UNCHANGED <<state, last_ux, since_entered, loop_pc>>
    /\ last_step' = OtherStep
    /\ UNCHANGED <<running, audio_queue, recording_buffer, silence_frame_count,
                   speech_frame_count, thinking_since, chain, open_episodes,
                   busVars, auxVars>>

(* The publish of the speaking timeout returns:                            *)
(* delattr(self, '_speaking_start_time')                                   *)
LoopTimeoutResume ==
    /\ running /\ loop_pc = "timeout_publish"
    /\ speaking_since' = NoAttr
    /\ loop_pc' = "top"
    /\ last_step' = OtherStep
    /\ UNCHANGED <<state, running, audio_queue, recording_buffer, silence_frame_count,
                   speech_frame_count, thinking_since, chain, last_ux, since_entered,
                   polled, open_episodes,
                   busVars, auxVars>>

(* publish(audio.recorded) returns when the gather of its handlers is done *)
(* (GatherOutcome): the rest of _stop_and_process.                         *)
RecordedPublishDone(c) == c.stage = "done"

LoopRecordedResume ==
    /\ running /\ loop_pc = "awaiting_recorded"
    /\ RecordedPublishDone(chain)
    /\ state' = "thinking"
    /\ recording_buffer' = <<>>
    /\ in_episode' = <<>>
    /\ silence_frame_count' = 0
    /\ thinking_since' = 0
    /\ UNCHANGED stale_queued
    /\ last_ux' = "thinking"
    /\ since_entered' = 0
    /\ chain' = NoChain
    /\ loop_pc' = "top"
    /\ last_step' = OtherStep
    /\ UNCHANGED <<running, audio_queue, speech_frame_count, speaking_since, polled, open_episodes,
                   busVars, pipeVars, mouthVars, bodyVars, syncVars, lifeVars>>

(* ConversationLoop._on_playback_start *)
OnPlaybackStart ==
    IF state \in {"thinking", "idle"}
    THEN /\ state' = "speaking"
         /\ speaking_since' = 0
         /\ last_ux' = "speaking"
         /\ since_entered' = 0
    ELSE UNCHANGED <<state, speaking_since, last_ux, since_entered>>

PlaybackEndWithoutMoodEvent(ok) ==
    IF ok /\ state \in {"thinking", "speaking"}
    THEN /\ state' = "idle"
         /\ since_entered' = 0
         /\ UNCHANGED last_ux
    ELSE UNCHANGED <<state, last_ux, since_entered>>

(* ConversationLoop._on_playback_end *)
OnPlaybackEnd(ok) ==
    IF ok /\ state \in {"thinking", "speaking"}
    THEN /\ state' = "idle"
         /\ last_ux' = "idle"
         /\ since_entered' = 0
    ELSE UNCHANGED <<state, last_ux, since_entered>>

(* ConversationLoop._on_transcript; empty: not text or not text.strip();   *)
(* malformed: the construction of STTTranscript raised and the except branch runs   *)
OnTranscript(text) ==
    IF text \in {"empty", "malformed"} /\ state = "thinking"
    THEN /\ state' = "idle"
         /\ last_ux' = "idle"
         /\ since_entered' = 0
    ELSE UNCHANGED <<state, last_ux, since_entered>>

(* STT._on_recorded: the adapter fails (no event), or the transcript is    *)
(* published, empty or not. A hung adapter takes no step.                  *)
ChainTranscribe ==
    /\ chain.stage = "stt"
    /\ \E out \in {"fail", "empty", "text"} :
        chain' = IF out = "fail" THEN [chain EXCEPT !.stage = "done"]
                 ELSE [chain EXCEPT !.stage = "transcript", !.text = out]
    /\ last_step' = OtherStep
    /\ UNCHANGED <<state, running, audio_queue, recording_buffer, silence_frame_count,
                   speech_frame_count, thinking_since, speaking_since, loop_pc, last_ux,
                   since_entered, polled, open_episodes,
                   busVars, auxVars>>

(* publish(stt.transcript) of STT: the loop's handler runs; NLU goes on    *)
(* with a transcript that is not empty.                                    *)
ChainDeliverTranscript ==
    /\ chain.stage = "transcript"
    /\ OnTranscript(chain.text)
    /\ chain' = [chain EXCEPT !.stage = IF chain.text = "empty" THEN "done" ELSE "reply"]
    /\ last_step' = OtherStep
    /\ UNCHANGED <<running, audio_queue, recording_buffer, silence_frame_count,
                   speech_frame_count, thinking_since, speaking_since, loop_pc, polled, open_episodes,
                   busVars, auxVars>>

(* NLU, Router, skill, TTS and the first part of Playback._on_audio: a     *)
(* reply audio is produced and playback starts, or the turn ends without   *)
(* one (no skill answers, synth fails, the file is missing).               *)
ChainReply ==
    /\ chain.stage = "reply"
    /\ \E replied \in BOOLEAN :
        chain' = [chain EXCEPT !.stage = IF replied THEN "playback_start" ELSE "done"]
    /\ last_step' = OtherStep
    /\ UNCHANGED <<state, running, audio_queue, recording_buffer, silence_frame_count,
                   speech_frame_count, thinking_since, speaking_since, loop_pc, last_ux,
                   since_entered, polled, open_episodes,
                   busVars, auxVars>>

(* publish(audio.playback.start) of Playback: the loop's handler runs. *)
ChainDeliverPlaybackStart ==
    /\ chain.stage = "playback_start"
    /\ OnPlaybackStart
    /\ chain' = [chain EXCEPT !.stage = "playing"]
    /\ last_step' = OtherStep
    /\ UNCHANGED <<running, audio_queue, recording_buffer, silence_frame_count,
                   speech_frame_count, thinking_since, loop_pc, polled, open_episodes,
                   busVars, auxVars>>

(* Playback._on_audio: sd.play and sd.wait end, well or with an error. *)
ChainPlay ==
    /\ chain.stage = "playing"
    /\ \E ok \in BOOLEAN : chain' = [chain EXCEPT !.stage = "playback_end", !.ok = ok]
    /\ last_step' = OtherStep
    /\ UNCHANGED <<state, running, audio_queue, recording_buffer, silence_frame_count,
                   speech_frame_count, thinking_since, speaking_since, loop_pc, last_ux,
                   since_entered, polled, open_episodes,
                   busVars, auxVars>>

(* publish(audio.playback.end) of Playback: the loop's handler runs, and   *)
(* the handlers of the turn return one after the other.                    *)
ChainDeliverPlaybackEnd ==
    /\ chain.stage = "playback_end"
    /\ OnPlaybackEnd(chain.ok)
    /\ chain' = [chain EXCEPT !.stage = "done"]
    /\ last_step' = OtherStep
    /\ UNCHANGED <<running, audio_queue, recording_buffer, silence_frame_count,
                   speech_frame_count, thinking_since, speaking_since, loop_pc, polled, open_episodes,
                   busVars, auxVars>>

(* Another publisher on the bus (the REPL of app.py, a test) publishes an  *)
(* event the loop is subscribed to.                                        *)
ExternalTranscript(text) ==
    /\ running
    /\ OnTranscript(text)
    /\ last_step' = OtherStep
    /\ UNCHANGED <<running, audio_queue, recording_buffer, silence_frame_count,
                   speech_frame_count, thinking_since, speaking_since, loop_pc, chain,
                   polled, open_episodes,
                   busVars, auxVars>>

ExternalPlaybackStart ==
    /\ running
    /\ OnPlaybackStart
    /\ last_step' = OtherStep
    /\ UNCHANGED <<running, audio_queue, recording_buffer, silence_frame_count,
                   speech_frame_count, thinking_since, loop_pc, chain, polled, open_episodes,
                   busVars, auxVars>>

ExternalPlaybackEnd(ok) ==
    /\ running
    /\ OnPlaybackEnd(ok)
    /\ last_step' = OtherStep
    /\ UNCHANGED <<running, audio_queue, recording_buffer, silence_frame_count,
                   speech_frame_count, thinking_since, speaking_since, loop_pc, chain,
                   polled, open_episodes,
                   busVars, auxVars>>

Older(age) == IF age = NoAttr THEN NoAttr ELSE Min(age + TickSeconds, MaxAge)

(* TickSeconds pass. The clock is read in thinking and in speaking only,   *)
(* and it is coarser than an iteration of the loop (0.11 s): it does not   *)
(* advance between the end of one iteration and the start of the next.     *)
(* polled: the loop has run an iteration since the clock last advanced.    *)
Tick ==
    /\ running
    /\ state \in {"thinking", "speaking"}
    /\ loop_pc = "top"
    /\ state = "speaking" => speaking_since # NoAttr
    /\ thinking_since' = Older(thinking_since)
    /\ speaking_since' = Older(speaking_since)
    /\ since_entered' = Older(since_entered)
    /\ polled' = FALSE
    /\ <<thinking_since', speaking_since', since_entered'>>
         # <<thinking_since, speaking_since, since_entered>>
    /\ last_step' = OtherStep
    /\ UNCHANGED <<state, running, audio_queue, recording_buffer, silence_frame_count,
                   speech_frame_count, loop_pc, chain, last_ux, open_episodes,
                   busVars, auxVars>>

LoopStep ==
    \/ LoopIdle
    \/ LoopRecording
    \/ LoopThinking
    \/ LoopSpeaking
    \/ LoopTimeoutResume
    \/ LoopRecordedResume

Next ==
    \/ Start
    \/ \E kind \in ChunkKinds : AudioCallback(kind)
    \/ LoopIdle
    \/ LoopRecording
    \/ LoopThinking
    \/ LoopSpeaking
    \/ LoopTimeoutResume
    \/ LoopRecordedResume
    \/ ChainTranscribe
    \/ ChainDeliverTranscript
    \/ ChainReply
    \/ ChainDeliverPlaybackStart
    \/ ChainPlay
    \/ ChainDeliverPlaybackEnd
    \/ \E text \in {"empty", "text"} : ExternalTranscript(text)
    \/ ExternalPlaybackStart
    \/ \E ok \in BOOLEAN : ExternalPlaybackEnd(ok)
    \/ Tick


BusInit ==
    /\ subs = EmptySubs
    /\ tasks = <<>>
    /\ ev = <<>>
    /\ pub = [s \in Sources |-> 0]
    /\ raiser = 0
    /\ raiseKind = "run"
    /\ subscribed = EmptySubs
    /\ subCalls = 0
    /\ cleared = FALSE
    /\ ConvInit

UsedHandlers == Range(subs["T1"]) \cup Range(subs["T2"])

Subscribe(T, h) ==
    /\ subs' = SubscribeFn(subs, T, h)
    /\ subscribed' = [subscribed EXCEPT ![T] = Append(@, h)]
    /\ subCalls' = subCalls + 1
    /\ UNCHANGED <<tasks, ev, pub, raiser, raiseKind, cleared, convVars, auxVars>>

Clear ==
    /\ ~cleared
    /\ subs' = ClearSubs(subs)
    /\ subscribed' = EmptySubs
    /\ cleared' = TRUE
    /\ UNCHANGED <<tasks, ev, pub, raiser, raiseKind, subCalls, convVars, auxVars>>

Publish(s, T) ==
    /\ pub[s] = 0
    /\ Len(ev) < MaxEvents
    /\ LET e == Len(ev) + 1
           newTasks == tasks \o ScheduleAll(Subscribers(subs, T), e)
           out == GatherOutcome(newTasks, e)
       IN /\ tasks' = newTasks
          /\ ev' = Append(ev, [topic |-> T, src |-> s, expected |-> subscribed[T],
                               afterClear |-> cleared, outcome |-> out])
          /\ pub' = [pub EXCEPT ![s] = IF out = "pending" THEN e ELSE 0]
    /\ UNCHANGED <<subs, raiser, raiseKind, subscribed, subCalls, cleared, convVars, auxVars>>

FinalStatus(h) == IF h = raiser /\ raiseKind = "run" THEN "raised" ELSE "ok"

(* The event loop starts the oldest task that has not started yet; the     *)
(* handler runs to its end or to its first suspension point.               *)
RunTask(i) ==
    /\ i \in 1..Len(tasks)
    /\ tasks[i].st = "scheduled"
    /\ \A j \in 1..(i-1) : tasks[j].st # "scheduled"
    /\ \E suspend \in BOOLEAN :
        /\ suspend => tasks[i].h \in SlowHandlers
        /\ tasks' = [tasks EXCEPT ![i].st =
                        IF suspend THEN "running" ELSE FinalStatus(tasks[i].h)]
    /\ UNCHANGED <<subs, ev, pub, raiser, raiseKind, subscribed, subCalls, cleared, convVars, auxVars>>

(* A suspended handler is resumed and runs to its end. *)
FinishTask(i) ==
    /\ i \in 1..Len(tasks)
    /\ tasks[i].st = "running"
    /\ tasks' = [tasks EXCEPT ![i].st = FinalStatus(tasks[i].h)]
    /\ UNCHANGED <<subs, ev, pub, raiser, raiseKind, subscribed, subCalls, cleared, convVars, auxVars>>

(* The gather of a publish call completes and publish returns. *)
PublishReturn(s) ==
    /\ pub[s] # 0
    /\ GatherOutcome(tasks, pub[s]) # "pending"
    /\ ev' = [ev EXCEPT ![pub[s]].outcome = GatherOutcome(tasks, pub[s])]
    /\ pub' = [pub EXCEPT ![s] = 0]
    /\ UNCHANGED <<subs, tasks, raiser, raiseKind, subscribed, subCalls, cleared, convVars, auxVars>>

(* Handlers are interchangeable, so new ones are introduced in the order   *)
(* of their ids; a handler may be subscribed again, on any topic.          *)
SubscribeAny(T, h) ==
    /\ subCalls < MaxSubs
    /\ \A g \in Handlers : g < h => g \in UsedHandlers
    /\ Subscribe(T, h)

BusNext ==
    \/ \E T \in Topics, h \in Handlers : SubscribeAny(T, h)
    \/ Clear
    \/ \E s \in Sources, T \in Topics : Publish(s, T)
    \/ \E i \in 1..(MaxEvents * Cardinality(Handlers)) : RunTask(i)
    \/ \E i \in 1..(MaxEvents * Cardinality(Handlers)) : FinishTask(i)
    \/ \E s \in Sources : PublishReturn(s)

BusSpec == BusInit /\ [][BusNext]_vars

(* The assistant: the bus is constructed, then the conversation loop. *)
Init == BusInit

Spec == Init /\ [][Next]_vars

(* The run loop is scheduled and time advances; the collaborators of the   *)
(* pipeline and the other publishers may stay silent for ever.             *)
FairSpec == Spec /\ WF_vars(LoopStep) /\ WF_vars(Tick)

(* Startup with one faulty handler: every handler subscribes once, in the  *)
(* order of its id, and then one source publishes.                         *)
IsoInit ==
    /\ subs = EmptySubs
    /\ tasks = <<>>
    /\ ev = <<>>
    /\ pub = [s \in Sources |-> 0]
    /\ raiser \in Handlers
    /\ raiseKind \in {"run", "sched"}
    /\ subscribed = EmptySubs
    /\ subCalls = 0
    /\ cleared = FALSE
    /\ ConvInit

SubscribeNextHandler(T, h) ==
    /\ h = subCalls + 1
    /\ Subscribe(T, h)

PublishAfterStartup(s, T) ==
    /\ subCalls = Cardinality(Handlers)
    /\ Publish(s, T)

IsoNext ==
    \/ \E T \in Topics, h \in Handlers : SubscribeNextHandler(T, h)
    \/ \E T \in Topics : PublishAfterStartup("s1", T)
    \/ \E i \in 1..(MaxEvents * Cardinality(Handlers)) : RunTask(i)
    \/ \E i \in 1..(MaxEvents * Cardinality(Handlers)) : FinishTask(i)
    \/ PublishReturn("s1")

IsoSpec == IsoInit /\ [][IsoNext]_vars

(***************************************************************************)
(* Claims about the bus.                                                   *)
(***************************************************************************)
Events == 1..Len(ev)

(* The number of times publish invoked handler h for event e (a call that  *)
(* raised while it was scheduled is an invocation too).                    *)
Invocations(h, e) ==
    Cardinality({i \in 1..Len(tasks) : tasks[i].evt = e /\ tasks[i].h = h})

Started(st) == st # "scheduled"

(* C1, as stated: one publish on T invokes every handler subscribed on T   *)
(* before the call exactly once, and no handler that was not subscribed on *)
(* T before the call (subscribed on other topics only, or later).          *)
C1_ExactlyOnce ==
    \A e \in Events, h \in Handlers :
        Invocations(h, e) = IF h \in Range(ev[e].expected) THEN 1 ELSE 0

(* C1, amended: one publish on T invokes a handler once per subscription   *)
(* of it on T made before the call (a handler subscribed twice is invoked  *)
(* twice), and no handler that was not subscribed on T before the call.    *)
C1_OncePerSubscription ==
    \A e \in Events, h \in Handlers :
        Invocations(h, e) = CountIn(ev[e].expected, h)

(* An event whose publish returned, that was delivered to a handler of its *)
(* topic, not to a handler subscribed on the other topic only, and not to  *)
(* a handler subscribed on its topic after the call.                       *)
C1_Witness ==
    \E e \in Events, h \in Handlers, g \in Handlers :
        /\ ev[e].outcome = "returned"
        /\ Invocations(h, e) >= 1
        /\ \A i \in TasksOf(e) : Finished(tasks[i].st)
        /\ g # h
        /\ Invocations(g, e) = 0
        /\ g \in Range(subs["T1"]) \cup Range(subs["T2"])

(* C2: a handler that raises, while it is scheduled or while it runs, does *)
(* not keep any other handler of the event from being invoked and from     *)
(* running to its end, publish does not raise, and this holds for every    *)
(* event, those published later on other topics included.                  *)
C2_Isolation ==
    \A e \in Events :
        /\ ev[e].outcome # "raised"
        /\ \A h \in Range(ev[e].expected) :
              \E i \in TasksOf(e) : tasks[i].h = h
        /\ ev[e].outcome = "returned" =>
              \A i \in TasksOf(e) : tasks[i].h # raiser => tasks[i].st = "ok"

(* Five subscribers of one event, one of them raised and the other four    *)
(* ran to their end, publish returned, and a later event on the other      *)
(* topic was handled.                                                      *)
C2_Witness ==
    \E e \in Events, f \in Events :
        /\ Len(ev[e].expected) >= 5
        /\ ev[e].outcome = "returned"
        /\ \E i \in TasksOf(e) : tasks[i].st \in {"raised", "sched_raised"}
        /\ Cardinality({i \in TasksOf(e) : tasks[i].st = "ok"}) >= 4
        /\ e < f
        /\ ev[f].topic # ev[e].topic
        /\ ev[f].outcome = "returned"
        /\ \E i \in TasksOf(f) : tasks[i].st = "ok"

(* C3, as stated: publish returns once every handler of the event has been *)
(* started; its return does not wait for a handler to complete.            *)
C3_ReturnsOnceStarted ==
    \A s \in Sources :
        (pub[s] # 0 /\ \A i \in TasksOf(pub[s]) : Started(tasks[i].st))
            => GatherOutcome(tasks, pub[s]) # "pending"

(* C4: when one source publishes e1 and then e2 on one topic, a handler    *)
(* has finished e1 before it starts e2.                                    *)
C4_FifoPerSource ==
    \A i \in 1..Len(tasks), j \in 1..Len(tasks) :
        ( /\ tasks[i].h = tasks[j].h
          /\ tasks[i].evt < tasks[j].evt
          /\ ev[tasks[i].evt].src = ev[tasks[j].evt].src
          /\ ev[tasks[i].evt].topic = ev[tasks[j].evt].topic
          /\ Started(tasks[j].st) )
        => Finished(tasks[i].st)

(* One handler has handled two events of one source on one topic, the      *)
(* first of them after a suspension.                                       *)
C4_Witness ==
    \E i \in 1..Len(tasks), j \in 1..Len(tasks) :
        /\ tasks[i].h = tasks[j].h
        /\ tasks[i].evt < tasks[j].evt
        /\ ev[tasks[i].evt].src = ev[tasks[j].evt].src
        /\ ev[tasks[i].evt].topic = ev[tasks[j].evt].topic
        /\ tasks[i].h \in SlowHandlers
        /\ tasks[i].st = "ok"
        /\ tasks[j].st = "running"

(* C5: an event published after clear() is delivered to the handlers       *)
(* subscribed on its topic after the clear, once per subscription, and to  *)
(* no other handler; with no subscription after the clear, to none.        *)
C5_ClearRemovesAll ==
    \A e \in Events :
        ev[e].afterClear =>
            \A h \in Handlers : Invocations(h, e) = CountIn(ev[e].expected, h)

(* A topic whose event was delivered before the clear, and whose next      *)
(* event, published after the clear, was delivered to no handler.          *)
C5_Witness ==
    \E e \in Events, f \in Events :
        /\ e < f
        /\ ev[e].topic = ev[f].topic
        /\ ~ev[e].afterClear
        /\ TasksOf(e) # {}
        /\ ev[f].afterClear
        /\ TasksOf(f) = {}

(***************************************************************************)
(* Claims about the conversation loop.                                     *)
(***************************************************************************)

(* C6: in a turn of the loop's own recording for which the pipeline        *)
(* produces a reply, the machine is in thinking when audio.playback.start  *)
(* of that turn is delivered to it.                                        *)
C6_ThinkingBeforePlaybackStart ==
    chain.stage = "playback_start" => state = "thinking"

(* C7: whenever the machine has left idle it reaches idle again, whatever  *)
(* the microphone and the collaborators do, when the run loop is scheduled *)
(* and time advances.                                                      *)
C7_EventuallyIdle == (running /\ state # "idle") ~> (state = "idle")

(* an stt.transcript event with empty text is delivered to the loop *)
DeliverEmptyTranscript ==
    \/ ExternalTranscript("empty")
    \/ chain.text = "empty" /\ ChainDeliverTranscript

(* C8: the delivery of an stt.transcript event with empty or blank text    *)
(* leaves the machine in idle, whatever state it was in.                   *)
C8_EmptyTranscriptResets == [][DeliverEmptyTranscript => state' = "idle"]_vars

(* C9: once the run loop has iterated, the machine is not in thinking      *)
(* more than 30 s after it entered thinking, nor in speaking more than     *)
(* 60 s after it entered speaking, and the loop is still running.          *)
C9_TimeoutsReset ==
    polled =>
        /\ state = "thinking" => since_entered <= THINKING_TIMEOUT_S
        /\ state = "speaking" => since_entered <= SPEAKING_TIMEOUT_S
        /\ running
        /\ loop_pc \in {"top", "awaiting_recorded", "timeout_publish"}

(* The speaking timeout has just fired, more than 60 s after speaking was  *)
(* entered: the machine is in idle and the loop goes on.                   *)
C9_Witness ==
    /\ loop_pc = "timeout_publish"
    /\ state = "idle"
    /\ speaking_since > SPEAKING_TIMEOUT_S
    /\ since_entered = 0
    /\ running

(* C10: the last ux.state event the loop published carries the mood of     *)
(* its current state.                                                      *)
C10_LastUxIsMood == running => last_ux = Mood(state)

EndDeclared == LoopRecording /\ last_step'.kind = "stop"

DetectFromZero ==
    LoopIdle /\ state = "idle" /\ speech_frame_count = 0 /\ audio_queue # <<>>

(* C13: from idle with the speech counter at 0, a window whose speech is   *)
(* SPEECH_FRAMES_TO_START - 1 consecutive frames followed by silence       *)
(* leaves the machine in idle, and a window with SPEECH_FRAMES_TO_START    *)
(* consecutive speech frames moves it to recording, at every audio level.  *)
C13_OnsetNeedsNFrames ==
    [][DetectFromZero =>
        LET window == TakeChunks(audio_queue)
        IN /\ MaxConsecutive(window) = SPEECH_FRAMES_TO_START - 1 => state' = "idle"
           /\ MaxConsecutive(window) >= SPEECH_FRAMES_TO_START => state' = "recording"]_vars

(* C14: while recording, a poll that finds speech in the captured audio    *)
(* resets the silence count to 0, and a poll that finds no new audio in    *)
(* the queue neither advances the count nor declares the end of speech.    *)
C14_SilenceCountsAudio ==
    [][LoopRecording =>
        LET buffer == recording_buffer \o audio_queue
            recent == SubSeq(buffer, Len(buffer) - 1, Len(buffer))
        IN /\ (Len(buffer) >= 2 /\ SpeechFrames(recent) > 0) => silence_frame_count' = 0
           /\ audio_queue = <<>> =>
                (silence_frame_count' = silence_frame_count /\ ~EndDeclared)]_vars

(* an audio.playback.end event with ok = true is delivered to the loop *)
DeliverPlaybackEndOk ==
    \/ ExternalPlaybackEnd(TRUE)
    \/ chain.ok /\ ChainDeliverPlaybackEnd

(* C15: in speaking, the delivery of audio.playback.end with ok = true     *)
(* moves the machine to idle and publishes ux.state idle, and the run      *)
(* loop goes on, so that its next iterations run onset detection.          *)
C15_PlaybackEndToIdle ==
    [][(state = "speaking" /\ DeliverPlaybackEndOk) =>
        /\ state' = "idle"
        /\ last_ux' = "idle"
        /\ running'
        /\ loop_pc' \in {"top", "timeout_publish"}]_vars

(* Speaking was left by a playback end (a timeout would have removed the   *)
(* time stamp of speaking) and onset detection is running again.           *)
C15_Witness ==
    /\ state = "idle"
    /\ last_ux = "idle"
    /\ speaking_since # NoAttr
    /\ thinking_since = NoAttr
    /\ loop_pc = "top"
    /\ ENABLED LoopIdle

(***************************************************************************)
(* The pipeline wired on the bus: every handler is a task of the event     *)
(* loop, created by Bus.publish in subscription order and run from the     *)
(* loop's FIFO ready queue up to its next suspension.                      *)
(***************************************************************************)
MaxTurns == 1

PipelineTopics ==
    {"stt.transcript", "nlu.intent", "skill.request", "skill.response",
     "tts.request", "tts.audio", "audio.playback.start", "audio.playback.end"}

ObservedTopics ==
    <<"nlu.intent", "skill.request", "tts.request", "audio.playback.start",
      "audio.playback.end">>

(* Server mode with CLIENT_SERVER_URL: ClientAudioPush takes tts.audio and *)
(* Playback is not started.                                                *)
PushEnv == [billy |-> FALSE, obs_first |-> FALSE, push |-> TRUE, playback |-> FALSE]

(* ClientAudioPush.start subscribes when it has a client URL *)
ClientPushWired == "push" \in DOMAIN p_env /\ p_env.push

(* Playback is started unless the server hands the audio to a client *)
PlaybackWired == "playback" \notin DOMAIN p_env \/ p_env.playback

(* The handlers of a topic, in the order the application subscribes them *)
Components(topic) ==
    CASE topic = "audio.recorded" -> <<"stt">>
      [] topic = "stt.transcript" -> <<"nlu", "loop_transcript">>
      [] topic = "nlu.intent" -> <<"router_intent">>
      [] topic = "skill.request" -> <<"echo">>
      [] topic = "skill.response" -> <<"router_response">>
      [] topic = "tts.request" -> <<"tts">>
      [] topic = "tts.audio" ->
            (IF PlaybackWired THEN <<"playback">> ELSE <<>>)
            \o (IF ClientPushWired THEN <<"client_push">> ELSE <<>>)
      [] topic = "audio.playback.start" ->
            (IF p_env.billy THEN <<"billy_start">> ELSE <<>>) \o <<"loop_start">>
      [] topic = "audio.playback.end" ->
            (IF p_env.billy THEN <<"billy_end">> ELSE <<>>) \o <<"loop_end">>
      [] topic = "ux.state" -> IF p_env.billy THEN <<"billy_ux">> ELSE <<>>

PlaybackSubscribedTwice(topic) ==
    LET observers == IF topic \in Range(ObservedTopics) THEN <<"observer">> ELSE <<>>
    IN  IF topic = "tts.audio" THEN <<"playback", "playback">>
        ELSE IF p_env.obs_first THEN observers \o Components(topic)
        ELSE Components(topic) \o observers

(* Bus._subs[topic] once the application and the observers are wired *)
PipeSubscribers(topic) ==
    LET observers == IF topic \in Range(ObservedTopics) THEN <<"observer">> ELSE <<>>
    IN  IF p_env.obs_first THEN observers \o Components(topic)
        ELSE Components(topic) \o observers

SameTraceKeepsOwnId(parent_corr, child_corr) == child_corr

(* same_trace: the child takes the parent's corr_id *)
same_trace(parent_corr, child_corr) == parent_corr

Publishes(topic, flag, traced) ==
    [act |-> "publish", topic |-> topic, flag |-> flag, traced |-> traced]

Works == [act |-> "work", topic |-> "none", flag |-> TRUE, traced |-> TRUE]

Returns == [act |-> "return", topic |-> "none", flag |-> TRUE, traced |-> TRUE]

(* An exception leaves the handler: its task ends with it *)
Raises == [act |-> "raise", topic |-> "none", flag |-> TRUE, traced |-> TRUE]

(* What the collaborator of a handler can answer at position pc: the STT   *)
(* adapter a text, an empty text or an exception; the NLU an intent that a *)
(* skill answers or not; synth a file or an exception; playback can fail   *)
(* to read the file, or fail to play it.                                   *)
Outcomes(fn, pc) ==
    CASE fn = "stt" /\ pc = 1 -> {"ok", "empty", "raises"}
      [] fn = "nlu" /\ pc = 0 -> {"ok", "unanswered"}
      [] fn = "tts" /\ pc = 1 -> {"ok", "raises"}
      [] fn = "playback" /\ pc \in {0, 1} -> {"ok", "raises"}
      [] fn = "client_push" /\ pc = 0 -> {"ok", "missing"}
      [] fn = "client_push" /\ pc = 1 -> {"ok", "timeout", "error_status"}
      [] OTHER -> {"ok"}

ClientPushLetsErrorsEscape(pc, out) ==
    IF pc = 0 THEN Works
    ELSE IF pc = 1 /\ out # "ok" THEN Raises
    ELSE Returns

(* ClientAudioPush._on_audio: no request for a file that is missing; the   *)
(* push is awaited inside try, and what _push_to_client raises (timeout,   *)
(* error status, anything else) is logged and not raised again.            *)
ClientPushStep(pc, out) ==
    IF pc = 0 /\ out = "ok" THEN Works ELSE Returns

(* What a handler does when the event loop runs it at position pc for the  *)
(* event evt, its collaborator answering out: it awaits work in the        *)
(* executor, awaits a publish, or returns (an exception that leaves the    *)
(* handler ends its task like a return). failed: an earlier answer to this *)
(* handler was not "ok".                                                   *)
HandlerStep(fn, pc, evt, out, failed) ==
    CASE fn = "stt" ->
            IF pc = 0 THEN Works
            ELSE IF pc = 1 /\ out # "raises"
                 THEN Publishes("stt.transcript", out = "ok", TRUE)
            ELSE Returns
      [] fn = "nlu" ->
            IF pc = 0 /\ evt.flag THEN Publishes("nlu.intent", out = "ok", TRUE)
            ELSE Returns
      [] fn = "router_intent" ->
            IF pc = 0 THEN Publishes("skill.request", evt.flag, TRUE) ELSE Returns
      [] fn = "echo" ->
            IF pc = 0 /\ evt.flag THEN Publishes("skill.response", TRUE, TRUE) ELSE Returns
      [] fn = "router_response" ->
            IF pc = 0 THEN Publishes("tts.request", TRUE, TRUE) ELSE Returns
      [] fn = "tts" ->
            IF pc = 0 THEN Works
            ELSE IF pc = 1 /\ out = "ok" THEN Publishes("tts.audio", TRUE, TRUE)
            ELSE IF pc = 1 THEN Raises
            ELSE Returns
      [] fn = "playback" ->
            IF failed THEN Returns
            ELSE IF pc = 0
            THEN IF out = "ok" THEN Publishes("audio.playback.start", TRUE, TRUE)
                 ELSE Publishes("audio.playback.end", FALSE, TRUE)
            ELSE IF pc = 1
            THEN IF out = "ok" THEN Works
                 ELSE Publishes("audio.playback.end", FALSE, TRUE)
            ELSE IF pc = 2 THEN Publishes("audio.playback.end", TRUE, TRUE)
            ELSE IF pc = 3 THEN Works
            ELSE Returns
      [] fn = "client_push" -> ClientPushStep(pc, out)
      [] fn = "billy_start" ->
            IF pc = 0 THEN Publishes("ux.state", TRUE, FALSE) ELSE Returns
      [] fn = "billy_end" ->
            IF pc = 0 /\ evt.flag THEN Publishes("ux.state", TRUE, FALSE) ELSE Returns
      [] fn = "loop_start" ->
            IF pc = 0 /\ state \in {"thinking", "idle"}
            THEN Publishes("ux.state", TRUE, FALSE) ELSE Returns
      [] fn = "loop_end" ->
            IF pc = 0 /\ evt.flag /\ state \in {"thinking", "speaking"}
            THEN Publishes("ux.state", TRUE, FALSE) ELSE Returns
      [] fn = "loop_transcript" ->
            IF pc = 0 /\ ~evt.flag /\ state = "thinking"
            THEN Publishes("ux.state", TRUE, FALSE) ELSE Returns
      [] OTHER -> Returns

MalformedStepPropagates(fn, pc) ==
    IF pc = 0 /\ fn = "nlu" THEN Publishes("nlu.intent", TRUE, TRUE)
    ELSE IF pc = 0 /\ fn = "loop_transcript" /\ state = "thinking"
    THEN Publishes("ux.state", TRUE, FALSE)
    ELSE Returns

(* What a handler does with a payload its event type cannot be built from: *)
(* the except branch around the construction returns; that of                *)
(* ConversationLoop._on_transcript publishes ux.state idle out of thinking. *)
MalformedStep(fn, pc) ==
    IF pc = 0 /\ fn = "loop_transcript" /\ state = "thinking"
    THEN Publishes("ux.state", TRUE, FALSE)
    ELSE Returns

(* The state change of a ConversationLoop handler, made before its publish *)
LoopHandlerEffect(fn, pc, evt) ==
    IF pc = 0 /\ fn = "loop_start" /\ ~evt.malformed
    THEN OnPlaybackStart
    ELSE IF pc = 0 /\ fn = "loop_end" /\ ~evt.malformed
    THEN OnPlaybackEnd(evt.flag) /\ UNCHANGED speaking_since
    ELSE IF pc = 0 /\ fn = "loop_transcript"
    THEN OnTranscript(IF evt.malformed THEN "malformed"
                      ELSE IF evt.flag THEN "text" ELSE "empty")
         /\ UNCHANGED speaking_since
    ELSE UNCHANGED <<state, speaking_since, last_ux, since_entered>>

(* The variables of the conversation loop that no bus handler assigns *)
loopOnlyVars ==
    <<running, audio_queue, recording_buffer, silence_frame_count, speech_frame_count,
      thinking_since, loop_pc, chain, polled, open_episodes, last_step, in_episode,
      stale_queued>>

EnqueueAtFront(queue, ids) == ids \o queue

(* asyncio.create_task and the wake-up of a waiting task: the event loop   *)
(* puts what became ready at the tail of its ready queue.                  *)
Enqueue(queue, ids) == queue \o ids

(* Bus.publish, the part before gather: one task per subscriber, in order *)
NewTasks(e, topic) ==
    [i \in 1..Len(PipeSubscribers(topic)) |->
        [fn |-> PipeSubscribers(topic)[i], ev |-> e, pc |-> 0, st |-> "ready",
         failed |-> FALSE, raised |-> FALSE]]

NewTaskIds(topic) ==
    [i \in 1..Len(PipeSubscribers(topic)) |-> Len(p_tasks) + i]

Turns == Cardinality({e \in DOMAIN p_events : p_events[e].cause = 0})

PipeInitWith(envs) ==
    /\ subs = EmptySubs
    /\ tasks = <<>>
    /\ ev = <<>>
    /\ pub = [s \in Sources |-> 0]
    /\ raiser = 0
    /\ raiseKind = "run"
    /\ subscribed = EmptySubs
    /\ subCalls = 0
    /\ cleared = FALSE
    /\ state \in {"idle", "recording", "thinking"}
    /\ running = TRUE
    /\ audio_queue = <<>>
    /\ recording_buffer = <<>>
    /\ in_episode = <<>>
    /\ stale_queued = <<>>
    /\ silence_frame_count = 0
    /\ speech_frame_count = 0
    /\ thinking_since = NoAttr
    /\ speaking_since = NoAttr
    /\ loop_pc = "top"
    /\ chain = NoChain
    /\ last_ux = "idle"
    /\ since_entered = 0
    /\ polled = FALSE
    /\ open_episodes = 0
    /\ last_step = OtherStep
    /\ p_events = <<>>
    /\ p_tasks = <<>>
    /\ p_ready = <<>>
    /\ p_seen = <<>>
    /\ p_env \in envs
    /\ p_next_id = MaxTurns + 1
    /\ LoopStarted(1)
    /\ MouthIdle
    /\ SyncIdle
    /\ BodyIdle

PipeInit == PipeInitWith(PipeEnvs)

(* A turn begins: an event with a correlation id of its own is published   *)
(* from outside the handlers (the loop's audio.recorded, a test's or the   *)
(* REPL's stt.transcript), at a moment when no handler is ready to run:    *)
(* the handlers of earlier turns are finished or wait for the executor.    *)
Inject(topic, flag, malformed) ==
    /\ Turns < MaxTurns
    /\ p_ready = <<>>
    /\ p_events' = Append(p_events,
                          [topic |-> topic, corr |-> Turns + 1, flag |-> flag,
                           turn |-> Len(p_events) + 1, cause |-> 0, publisher |-> 0,
                           malformed |-> malformed])
    /\ p_tasks' = p_tasks \o NewTasks(Len(p_events) + 1, topic)
    /\ p_ready' = Enqueue(p_ready, NewTaskIds(topic))
    /\ UNCHANGED <<p_seen, p_env, p_next_id, state, speaking_since, last_ux, since_entered,
                   loopOnlyVars, busVars, mouthVars, bodyVars, syncVars, lifeVars>>

GatheredOnStart(siblings) == \A i \in siblings : p_tasks[i].pc >= 1

(* Bus.publish: its await of asyncio.gather over the subscribers' tasks,   *)
(* with return_exceptions=True, is over when each of the tasks is done     *)
Gathered(siblings) == \A i \in siblings : p_tasks[i].st = "done"

(* The event loop runs the task at the head of its ready queue up to the   *)
(* task's next await or to its end.                                        *)
RunHead ==
    /\ p_ready # <<>>
    /\ LET t == Head(p_ready)
           task == p_tasks[t]
           evt == p_events[task.ev]
           e == Len(p_events) + 1
           siblings == {i \in DOMAIN p_tasks : p_tasks[i].ev = task.ev /\ i # t}
       IN  \E out \in (IF evt.malformed THEN {"ok"} ELSE Outcomes(task.fn, task.pc)) :
           LET step == IF evt.malformed THEN MalformedStep(task.fn, task.pc)
                       ELSE HandlerStep(task.fn, task.pc, evt, out, task.failed)
               ran == [task EXCEPT !.pc = @ + 1, !.failed = @ \/ out # "ok",
                                   !.raised = step.act = "raise"]
           IN
           /\ LoopHandlerEffect(task.fn, task.pc, evt)
           /\ p_seen' = IF task.fn = "observer" THEN Append(p_seen, task.ev) ELSE p_seen
           /\ IF step.act = "work"
              THEN /\ p_tasks' = [p_tasks EXCEPT ![t] = [ran EXCEPT !.st = "working"]]
                   /\ p_ready' = Tail(p_ready)
                   /\ UNCHANGED <<p_events, p_next_id>>
              ELSE IF step.act = "publish"
              THEN /\ p_events' = Append(p_events,
                          [topic |-> step.topic,
                           corr |-> IF step.traced THEN same_trace(evt.corr, p_next_id)
                                    ELSE p_next_id,
                           flag |-> step.flag, turn |-> evt.turn, cause |-> task.ev,
                           publisher |-> t, malformed |-> FALSE])
                   /\ p_next_id' = p_next_id + 1
                   /\ IF PipeSubscribers(step.topic) = <<>>
                      THEN /\ p_tasks' = [p_tasks EXCEPT ![t] = ran]
                           /\ UNCHANGED p_ready
                      ELSE /\ p_tasks' = [p_tasks EXCEPT ![t] = [ran EXCEPT !.st = "gathering"]]
                                         \o NewTasks(e, step.topic)
                           /\ p_ready' = Enqueue(Tail(p_ready), NewTaskIds(step.topic))
              ELSE /\ UNCHANGED <<p_events, p_next_id>>
                   /\ IF evt.publisher # 0 /\ Gathered(siblings)
                      THEN /\ p_tasks' = [p_tasks EXCEPT ![t] = [ran EXCEPT !.st = "done"],
                                                         ![evt.publisher].st = "ready"]
                           /\ p_ready' = Enqueue(Tail(p_ready), <<evt.publisher>>)
                      ELSE /\ p_tasks' = [p_tasks EXCEPT ![t] = [ran EXCEPT !.st = "done"]]
                           /\ p_ready' = Tail(p_ready)
    /\ UNCHANGED <<p_env, loopOnlyVars, busVars, mouthVars, bodyVars, syncVars, lifeVars>>

(* run_in_executor: the worker thread finishes and the task is ready       *)
(* again; the loop takes the completion up once it has run what was ready. *)
WorkDone(t) ==
    /\ t \in DOMAIN p_tasks
    /\ p_tasks[t].st = "working"
    /\ p_ready = <<>>
    /\ p_tasks' = [p_tasks EXCEPT ![t].st = "ready"]
    /\ p_ready' = Enqueue(p_ready, <<t>>)
    /\ UNCHANGED <<p_events, p_seen, p_env, p_next_id, state, speaking_since, last_ux,
                   since_entered, loopOnlyVars, busVars, mouthVars, bodyVars, syncVars, lifeVars>>

InjectRecorded == Inject("audio.recorded", TRUE, FALSE)

InjectTranscript == \E flag \in BOOLEAN : Inject("stt.transcript", flag, FALSE)

WorkDoneAny == \E t \in DOMAIN p_tasks : WorkDone(t)

PipeNext == InjectRecorded \/ InjectTranscript \/ RunHead \/ WorkDoneAny

PipeSpec == PipeInit /\ [][PipeNext]_vars

(* C16: every stt.transcript, nlu.intent, skill.request, skill.response,   *)
(* tts.request, tts.audio, audio.playback.start and audio.playback.end     *)
(* event produced for a turn carries the correlation id of the             *)
(* audio.recorded or stt.transcript event that began the turn.             *)
C16_PipelineKeepsCorrId ==
    \A e \in DOMAIN p_events :
        (p_events[e].cause # 0 /\ p_events[e].topic \in PipelineTopics)
            => p_events[e].corr = p_events[p_events[e].turn].corr

C16_Witness ==
    \E e \in DOMAIN p_events :
        /\ p_events[e].topic = "audio.playback.end"
        /\ p_events[e].flag
        /\ p_events[p_events[e].turn].topic = "audio.recorded"
        /\ p_events[e].corr = p_events[p_events[e].turn].corr
        /\ \A t \in PipelineTopics :
              \E d \in DOMAIN p_events :
                  p_events[d].topic = t /\ p_events[d].turn = p_events[e].turn

(* C17: every event a component publishes while it handles an incoming     *)
(* event carries the incoming event's correlation id, the ux.state events  *)
(* of ConversationLoop and BillyBass included.                             *)
C17_DerivedEventsKeepCorrId ==
    \A e \in DOMAIN p_events :
        p_events[e].cause # 0 => p_events[e].corr = p_events[p_events[e].cause].corr

(* The event loop keeps running what is ready, and work given to the       *)
(* executor finishes.                                                      *)
FairPipeSpec == PipeSpec /\ WF_vars(RunHead) /\ WF_vars(WorkDoneAny)

RecordedTurns ==
    {r \in DOMAIN p_events : p_events[r].cause = 0 /\ p_events[r].topic = "audio.recorded"}

TurnTasks(r) == {t \in DOMAIN p_tasks : p_events[p_tasks[t].ev].turn = r}

(* A collaborator of the turn did not succeed: no text, no answering       *)
(* skill, an exception in transcribe, synth or playback.                   *)
TurnFailed(r) == \E t \in TurnTasks(r) : p_tasks[t].failed

TurnOver(r) == \A t \in TurnTasks(r) : p_tasks[t].st = "done"

EventsOf(r, topic) ==
    {e \in DOMAIN p_events : p_events[e].turn = r /\ p_events[e].topic = topic}

OnePlayback(r) ==
    /\ Cardinality(EventsOf(r, "audio.playback.start")) = 1
    /\ Cardinality(EventsOf(r, "audio.playback.end")) = 1

(* C18: an audio.recorded event with correlation id C1 whose collaborators *)
(* succeed yields at most one audio.playback.start and one                 *)
(* audio.playback.end, the end after the start and with ok = true, both    *)
(* with C1; and in the end it has yielded exactly one of each.             *)
C18_EndToEnd ==
    /\ [](\A r \in RecordedTurns :
            ~TurnFailed(r) =>
                /\ Cardinality(EventsOf(r, "audio.playback.start")) <= 1
                /\ Cardinality(EventsOf(r, "audio.playback.end")) <= 1
                /\ \A e \in EventsOf(r, "audio.playback.start") \cup EventsOf(r, "audio.playback.end") :
                      p_events[e].corr = p_events[r].corr
                /\ \A e \in EventsOf(r, "audio.playback.end") :
                      p_events[e].flag /\ EventsOf(r, "audio.playback.start") # {}
                /\ TurnOver(r) => OnePlayback(r))
    /\ <>[](\A r \in RecordedTurns : TurnFailed(r) \/ (TurnOver(r) /\ OnePlayback(r)))

C18_Witness ==
    \E r \in RecordedTurns :
        /\ ~TurnFailed(r)
        /\ TurnOver(r)
        /\ OnePlayback(r)
        /\ \A e \in EventsOf(r, "audio.playback.end") : p_events[e].flag /\ p_events[e].corr = 1
        /\ p_events[r].corr = 1

TranscriptTurns ==
    {r \in DOMAIN p_events :
        p_events[r].cause = 0 /\ p_events[r].topic = "stt.transcript" /\ p_events[r].flag}

(* What the observers captured of turn r, as positions in ObservedTopics *)
SeenStages(r) ==
    LET seen == SelectSeq(p_seen, LAMBDA e : p_events[e].turn = r)
    IN  [i \in DOMAIN seen |->
            CHOOSE k \in DOMAIN ObservedTopics : ObservedTopics[k] = p_events[seen[i]].topic]

(* C19: of a turn begun by a non-empty stt.transcript the observers see    *)
(* nlu.intent, skill.request, tts.request, audio.playback.start and        *)
(* audio.playback.end in this order, never an event of a later stage       *)
(* before one of an earlier stage; all five once the turn is over and its  *)
(* collaborators succeeded.                                                *)
C19_ObservedInStageOrder ==
    \A r \in TranscriptTurns :
        /\ \A i, j \in DOMAIN SeenStages(r) : i < j => SeenStages(r)[i] < SeenStages(r)[j]
        /\ (TurnOver(r) /\ ~TurnFailed(r)) => SeenStages(r) = [k \in DOMAIN ObservedTopics |-> k]

C19_Witness ==
    \E r \in TranscriptTurns :
        /\ TurnOver(r)
        /\ Len(SeenStages(r)) = Len(ObservedTopics)
        /\ p_env.obs_first

(* Event d is event e, or was published by a handler of an event that     *)
(* descends from e                                                         *)
RECURSIVE DescendsFrom(_, _)
DescendsFrom(d, e) ==
    \/ d = e
    \/ p_events[d].cause # 0 /\ DescendsFrom(p_events[d].cause, e)

(* The handler that published event e has got past its await of publish *)
PublishReturned(e) ==
    LET p == p_events[e].publisher
    IN  /\ p # 0
        /\ \/ p_tasks[p].st # "gathering"
           \/ \E later \in DOMAIN p_events : later > e /\ p_events[later].publisher = p

MaxWindows == 2
MaxPlaybacks == 2

(* RMS volume and peak amplitude of the int16 samples of a 10 ms window:   *)
(* silence, under the noise gate by RMS and by peak, on the gate, just     *)
(* over it, speech, full scale                                             *)
Windows == {<<0, 0>>, <<400, 700>>, <<500, 500>>, <<600, 700>>, <<1000, 5000>>, <<32768, 32768>>}

(* _move_mouth: effective_volume = max(volume, peak * 0.7), to the integer *)
(* below, which the comparison with the gate and the scaling do not tell   *)
(* from the float                                                          *)
EffectiveVolume(volume, peak) == Max(volume, (7 * peak) \div 10)

Volumes == {EffectiveVolume(w[1], w[2]) : w \in Windows}

PwmValUnclamped(effective_volume) ==
    IF effective_volume < NOISE_GATE_THRESHOLD THEN 0
    ELSE (effective_volume - NOISE_GATE_THRESHOLD) \div VOLUME_DIVISOR

(* _move_mouth: pwm_val of a window *)
PwmVal(effective_volume) ==
    IF effective_volume < NOISE_GATE_THRESHOLD THEN 0
    ELSE Max(MIN_PWM, Min(MAX_PWM, (effective_volume - NOISE_GATE_THRESHOLD) \div VOLUME_DIVISOR))

(* _move_mouth: what it writes to the pins *)
MouthWrite(pwm_val, prev_pwm) ==
    IF pwm_val > 0 THEN [duty |-> pwm_val, in1 |-> TRUE, in2 |-> FALSE]
    ELSE IF prev_pwm > 0 THEN [duty |-> 25, in1 |-> FALSE, in2 |-> TRUE]
    ELSE Rest

(* _stop_motor, first half: the reverse pulse that closes the mouth *)
ClosePulse == [duty |-> 30, in1 |-> FALSE, in2 |-> TRUE]

TaskRunning == m_task \in {"created", "delay", "executor", "window"}

(* A handler has cancelled the task and awaits it: _on_playback_start for  *)
(* a new playback, or _on_playback_end                                     *)
CancelRequested == m_handler \in {"awaiting", "end_awaiting"}

otherVars ==
    <<busVars, convVars, pipeVars, bodyVars, syncVars, lifeVars, in_episode, stale_queued>>

(* _on_playback_start: create_task(_process_audio_chunks(wav_path)), for   *)
(* the first playback or after the task of the playback before is over and *)
(* its last call of _move_mouth has left the executor. _prev_pwm is an     *)
(* attribute of the BillyBass object, assigned once by _move_mouth's       *)
(* hasattr test and then by every window: the new task begins with the     *)
(* value the last window left.                                             *)
CreateTask ==
    /\ m_task \in {"none", "ended", "cancelled"}
    /\ m_handler \in {"none", "awaited", "returned"}
    /\ m_worker \notin {"queued", "running"}
    /\ m_stop = "no"
    /\ m_playbacks < MaxPlaybacks
    /\ m_playbacks' = m_playbacks + 1
    /\ m_task' = "created"
    /\ m_handler' = "none"
    /\ m_worker' = "idle"
    /\ m_windows' = 0
    /\ UNCHANGED <<m_chunk, m_motor, m_prev_pwm, m_stop, otherVars>>

(* The task's first step: it enters the try block and sleeps 50 ms *)
TaskBegin ==
    /\ m_task = "created"
    /\ m_stop = "no"
    /\ ~CancelRequested
    /\ m_task' = "delay"
    /\ UNCHANGED <<m_worker, m_chunk, m_motor, m_prev_pwm, m_windows, m_handler, m_stop, m_playbacks, otherVars>>

(* A sleep of the task is over: it reads the next window and hands it to   *)
(* _move_mouth in the executor, or the file has ended and the finally      *)
(* block calls _stop_motor.                                                *)
NextWindow ==
    /\ m_task \in {"delay", "window"}
    /\ m_stop = "no"
    /\ ~CancelRequested
    /\ \/ /\ m_windows < MaxWindows
          /\ \E v \in Volumes : m_chunk' = v
          /\ m_task' = "executor"
          /\ m_worker' = "queued"
          /\ UNCHANGED <<m_motor, m_stop>>
       \/ /\ m_motor' = ClosePulse
          /\ m_stop' = "task"
          /\ m_task' = "ending"
          /\ UNCHANGED <<m_worker, m_chunk>>
    /\ UNCHANGED <<m_prev_pwm, m_windows, m_handler, m_playbacks, otherVars>>

(* A worker thread of the executor takes the call up *)
WorkerStart ==
    /\ m_worker = "queued"
    /\ m_worker' = "running"
    /\ UNCHANGED <<m_task, m_chunk, m_motor, m_prev_pwm, m_windows, m_handler, m_stop, m_playbacks, otherVars>>

(* _move_mouth in the worker thread *)
MoveMouth ==
    /\ m_worker = "running"
    /\ m_motor' = MouthWrite(PwmVal(m_chunk), m_prev_pwm)
    /\ m_prev_pwm' = PwmVal(m_chunk)
    /\ m_worker' = "finished"
    /\ UNCHANGED <<m_task, m_chunk, m_windows, m_handler, m_stop, m_playbacks, otherVars>>

(* The executor's future is done: the task goes on to its sleep until the  *)
(* next window boundary.                                                   *)
TaskResume ==
    /\ m_task = "executor"
    /\ m_worker = "finished"
    /\ m_stop = "no"
    /\ ~CancelRequested
    /\ m_task' = "window"
    /\ m_worker' = "idle"
    /\ m_windows' = m_windows + 1
    /\ UNCHANGED <<m_chunk, m_motor, m_prev_pwm, m_handler, m_stop, m_playbacks, otherVars>>

(* _on_playback_end: _stop_motor is called, its reverse pulse is written *)
EndHandlerStop ==
    /\ m_handler = "none"
    /\ m_stop = "no"
    /\ m_task # "none"
    /\ m_motor' = ClosePulse
    /\ m_stop' = "end"
    /\ m_handler' = "stopping"
    /\ UNCHANGED <<m_task, m_worker, m_chunk, m_prev_pwm, m_windows, m_playbacks, otherVars>>

(* _stop_motor, second half, after its sleep of 50 ms on the loop's        *)
(* thread: duty 0, both direction pins low. In the task's finally block    *)
(* the task is done after it; in _on_playback_end the handler goes on to   *)
(* cancel the task if it is not done, and awaits it.                       *)
StopRest ==
    /\ m_stop # "no"
    /\ m_motor' = Rest
    /\ m_stop' = "no"
    /\ IF m_stop = "task"
       THEN /\ m_task' = IF CancelRequested THEN "cancelled" ELSE "ended"
            /\ UNCHANGED m_handler
       ELSE /\ m_handler' = IF TaskRunning THEN "end_awaiting" ELSE "returned"
            /\ UNCHANGED m_task
    /\ UNCHANGED <<m_worker, m_chunk, m_prev_pwm, m_windows, m_playbacks, otherVars>>

(* _on_playback_start for a new playback: the task that is still running   *)
(* is cancelled and awaited.                                               *)
RestartCancel ==
    /\ m_handler = "none"
    /\ m_stop = "no"
    /\ TaskRunning
    /\ m_handler' = "awaiting"
    /\ UNCHANGED <<m_task, m_worker, m_chunk, m_motor, m_prev_pwm, m_windows, m_stop, m_playbacks, otherVars>>

(* CancelledError reaches the task at its await: a call the executor has   *)
(* not begun is dropped, a call that a worker thread is running goes on;   *)
(* the finally block calls _stop_motor. A task that never ran ends without *)
(* entering its try block.                                                 *)
TaskCancelled ==
    /\ CancelRequested
    /\ m_stop = "no"
    /\ TaskRunning
    /\ IF m_task = "created"
       THEN /\ m_task' = "cancelled"
            /\ UNCHANGED <<m_worker, m_motor, m_stop>>
       ELSE /\ m_task' = "ending"
            /\ m_worker' = IF m_worker = "queued" THEN "idle" ELSE m_worker
            /\ m_motor' = ClosePulse
            /\ m_stop' = "task"
    /\ UNCHANGED <<m_chunk, m_prev_pwm, m_windows, m_handler, m_playbacks, otherVars>>

(* await self._current_task returns in the handler: the cancellation has   *)
(* been awaited; _on_playback_end returns after it.                        *)
HandlerAwaited ==
    /\ CancelRequested
    /\ m_task = "cancelled"
    /\ m_stop = "no"
    /\ m_handler' = IF m_handler = "end_awaiting" THEN "returned" ELSE "awaited"
    /\ UNCHANGED <<m_task, m_worker, m_chunk, m_motor, m_prev_pwm, m_windows, m_stop, m_playbacks, otherVars>>

MouthNext ==
    \/ CreateTask
    \/ TaskBegin
    \/ NextWindow
    \/ WorkerStart
    \/ MoveMouth
    \/ TaskResume
    \/ EndHandlerStop
    \/ StopRest
    \/ RestartCancel
    \/ TaskCancelled
    \/ HandlerAwaited

MouthSpec == BusInit /\ [][MouthNext]_vars

(* C20: once the cancellation of the mouth-sync task has been awaited, the *)
(* mouth motor is at rest, PWM duty 0 and both direction pins low, and no  *)
(* later write raises the duty again; at whichever suspension point the    *)
(* task was cancelled.                                                     *)
C20_RestAfterCancellation == m_handler = "awaited" => m_motor = Rest

(* The mouth motor is driven forward, to open the mouth *)
Forward(motor) == motor.in1 /\ ~motor.in2 /\ motor.duty > 0

(* _move_mouth has written the pins in this step *)
MouthMoved == m_worker = "running" /\ m_worker' = "finished"

ReversePulse == [duty |-> 25, in1 |-> FALSE, in2 |-> TRUE]

(* C35: within one playback a window of intensity 0 gets the reverse close *)
(* pulse exactly when the window before it in the same playback had an     *)
(* intensity above 0; after a window of intensity 0, or as the first       *)
(* window of a playback, it sets duty 0 with both direction pins low.      *)
C35_ClosePulseAfterOpenWindow ==
    [][(MouthMoved /\ PwmVal(m_chunk) = 0) =>
          m_motor' = IF m_windows > 0 /\ m_prev_pwm > 0 THEN ReversePulse ELSE Rest]_vars

(***************************************************************************)
(* BillyBass mouth sync, the handlers: _on_playback_start and              *)
(* _on_playback_end run as tasks of Bus.publish and meet at their awaits.  *)
(***************************************************************************)
MaxPlaybackEvents == 3

nonSyncVars ==
    <<busVars, convVars, pipeVars, mouthVars, bodyVars, lifeVars, in_episode, stale_queued>>

SyncTaskAlive(t) == t # 0 /\ s_tasks[t].st # "done"

(* Bus.publish of audio.playback.start or audio.playback.end reaches       *)
(* BillyBass: a task for the handler                                       *)
PlaybackEvent(kind, ok) ==
    /\ Len(s_handlers) < MaxPlaybackEvents
    /\ s_handlers' = Append(s_handlers, [kind |-> kind, ok |-> ok, pc |-> "queued", target |-> 0])
    /\ UNCHANGED <<s_tasks, s_current_task, nonSyncVars>>

(* create_task(_process_audio_chunks(wav_path)) *)
WithSyncTask(tasks_now) == Append(tasks_now, [st |-> "alive", cancelled |-> FALSE])

(* _on_playback_start: up to await bus.publish("ux.state", speaking); from *)
(* there to the await of the task it cancelled, or with no task alive to   *)
(* create_task and the end; from that await to create_task and the end.    *)
RunStartHandler(h) ==
    /\ h \in DOMAIN s_handlers
    /\ s_handlers[h].kind = "start"
    /\ \/ /\ s_handlers[h].pc = "queued"
          /\ s_handlers' = [s_handlers EXCEPT ![h].pc = "publishing"]
          /\ UNCHANGED <<s_tasks, s_current_task>>
       \/ /\ s_handlers[h].pc = "publishing"
          /\ SyncTaskAlive(s_current_task)
          /\ s_tasks' = [s_tasks EXCEPT ![s_current_task].cancelled = TRUE]
          /\ s_handlers' = [s_handlers EXCEPT ![h].pc = "awaiting", ![h].target = s_current_task]
          /\ UNCHANGED s_current_task
       \/ /\ \/ s_handlers[h].pc = "publishing" /\ ~SyncTaskAlive(s_current_task)
             \/ s_handlers[h].pc = "awaiting" /\ s_tasks[s_handlers[h].target].st = "done"
          /\ s_tasks' = WithSyncTask(s_tasks)
          /\ s_current_task' = Len(s_tasks) + 1
          /\ s_handlers' = [s_handlers EXCEPT ![h].pc = "done", ![h].target = 0]
    /\ UNCHANGED nonSyncVars

(* _on_playback_end: with ok, up to await bus.publish("ux.state", idle);   *)
(* _stop_motor; the task, if it is not done, is cancelled and awaited.     *)
RunEndHandler(h) ==
    /\ h \in DOMAIN s_handlers
    /\ s_handlers[h].kind = "end"
    /\ \/ /\ s_handlers[h].pc = "queued"
          /\ s_handlers[h].ok
          /\ s_handlers' = [s_handlers EXCEPT ![h].pc = "publishing"]
          /\ UNCHANGED s_tasks
       \/ /\ \/ s_handlers[h].pc = "queued" /\ ~s_handlers[h].ok
             \/ s_handlers[h].pc = "publishing"
          /\ IF SyncTaskAlive(s_current_task)
             THEN /\ s_tasks' = [s_tasks EXCEPT ![s_current_task].cancelled = TRUE]
                  /\ s_handlers' = [s_handlers EXCEPT ![h].pc = "awaiting",
                                                      ![h].target = s_current_task]
             ELSE /\ s_handlers' = [s_handlers EXCEPT ![h].pc = "done"]
                  /\ UNCHANGED s_tasks
       \/ /\ s_handlers[h].pc = "awaiting"
          /\ s_tasks[s_handlers[h].target].st = "done"
          /\ s_handlers' = [s_handlers EXCEPT ![h].pc = "done", ![h].target = 0]
          /\ UNCHANGED s_tasks
    /\ UNCHANGED <<s_current_task, nonSyncVars>>

(* _process_audio_chunks comes to its end: the file is read through, or    *)
(* CancelledError reaches it at an await; its finally block runs.          *)
RunSyncTask(t) ==
    /\ t \in DOMAIN s_tasks
    /\ s_tasks[t].st = "alive"
    /\ s_tasks' = [s_tasks EXCEPT ![t].st = "done"]
    /\ UNCHANGED <<s_handlers, s_current_task, nonSyncVars>>

PlaybackEventAny == \E kind \in {"start", "end"}, ok \in BOOLEAN :
                        (kind = "start" => ok) /\ PlaybackEvent(kind, ok)

RunStartHandlerAny == \E h \in DOMAIN s_handlers : RunStartHandler(h)

RunEndHandlerAny == \E h \in DOMAIN s_handlers : RunEndHandler(h)

RunSyncTaskAny == \E t \in DOMAIN s_tasks : RunSyncTask(t)

SyncNext ==
    \/ PlaybackEventAny
    \/ RunStartHandlerAny
    \/ RunEndHandlerAny
    \/ RunSyncTaskAny

SyncSpec == BusInit /\ [][SyncNext]_vars

(* C36: at most one mouth-sync task is alive at any time, and a task that  *)
(* is alive is the one the _current_task handle refers to; whatever the    *)
(* interleaving of the audio.playback.start and audio.playback.end         *)
(* handlers.                                                               *)
C36_OneSyncTaskAlive ==
    \A t \in DOMAIN s_tasks : s_tasks[t].st # "done" => t = s_current_task

(***************************************************************************)
(* BillyBass body motor: the mood tasks that _on_ux_state creates, the     *)
(* periodic idle flap, and the component without its hardware.             *)
(***************************************************************************)
MaxUx == 3
MaxCalls == 2

(* The driver library is there and the pins initialise; Adafruit_BBIO is   *)
(* missing; enabled=False by configuration; GPIO.setup or PWM.start raises *)
HwModes == {"ok", "no_driver", "disabled", "init_fails"}

(* UXState.state as published by ConversationLoop and BillyBass *)
Moods == {"idle", "listening", "thinking", "speaking", "error"}

BodyCallUnguarded(enabled, initialized) == TRUE

(* tail_flap, head_turn: if not self.enabled or not self._initialized: return *)
BodyCallAllowed(enabled, initialized) == enabled /\ initialized

(* The coroutine _on_ux_state starts for a mood, if any *)
MoodTask(mood) ==
    CASE mood \in {"thinking", "listening"} -> "flaps"
      [] mood = "speaking" -> "head_turn"
      [] mood = "idle" -> "tail_flap"
      [] OTHER -> "none"

BodyTaskAlive(t) == t # 0 /\ b_tasks[t].st # "done"

nonBodyVars ==
    <<busVars, convVars, pipeVars, mouthVars, syncVars, lifeVars, in_episode, stale_queued>>

(* BillyBass.__init__: self.enabled = enabled and BBIO_AVAILABLE *)
Construct(hw) ==
    /\ b_hw = "unbuilt"
    /\ b_hw' = hw
    /\ b_enabled' = (hw \notin {"no_driver", "disabled"})
    /\ UNCHANGED <<b_initialized, b_subscribed, b_handlers, b_tasks, b_body_task, b_periodic,
                   b_body, b_calls, b_touched, b_anim, nonBodyVars>>

(* BillyBass.start: nothing when disabled; _initialize_hardware, which on  *)
(* an exception sets enabled to False; then the three subscriptions and    *)
(* the periodic idle flap task, unless the hardware did not initialise.    *)
StartBilly ==
    /\ b_hw # "unbuilt"
    /\ ~b_initialized
    /\ b_calls < MaxCalls
    /\ b_calls' = b_calls + 1
    /\ IF ~b_enabled
       THEN UNCHANGED <<b_enabled, b_initialized, b_subscribed, b_periodic>>
       ELSE IF b_hw = "init_fails"
       THEN /\ b_enabled' = FALSE
            /\ UNCHANGED <<b_initialized, b_subscribed, b_periodic>>
       ELSE /\ b_initialized' = TRUE
            /\ b_subscribed' = TRUE
            /\ b_periodic' = "waiting"
            /\ UNCHANGED b_enabled
    /\ UNCHANGED <<b_hw, b_handlers, b_tasks, b_body_task, b_body, b_touched, b_anim, nonBodyVars>>

(* tail_flap, head_turn, stop_body_motor or stop called on a BillyBass     *)
(* whose hardware is not available: each returns at its guard, or else     *)
(* writes to the pins.                                                     *)
CallUnavailable(op) ==
    /\ b_hw \notin {"unbuilt", "ok"}
    /\ b_calls < MaxCalls
    /\ b_calls' = b_calls + 1
    /\ b_touched' =
          (b_touched \/
             CASE op \in {"tail_flap", "head_turn"} -> BodyCallAllowed(b_enabled, b_initialized)
               [] op = "stop_body_motor" -> b_initialized
               [] op = "stop" -> b_enabled /\ b_initialized)
    /\ UNCHANGED <<b_hw, b_enabled, b_initialized, b_subscribed, b_handlers, b_tasks,
                   b_body_task, b_periodic, b_body, b_anim, nonBodyVars>>

(* Bus.publish("ux.state", ...) reaches BillyBass: a task for _on_ux_state *)
UxState(mood) ==
    /\ b_subscribed
    /\ Len(b_handlers) < MaxUx
    /\ b_handlers' = Append(b_handlers, [start |-> MoodTask(mood), pc |-> "queued", target |-> 0])
    /\ UNCHANGED <<b_hw, b_enabled, b_initialized, b_subscribed, b_tasks, b_body_task,
                   b_periodic, b_body, b_calls, b_touched, b_anim, nonBodyVars>>

(* _on_ux_state, its last part: create_task for the mood and assign the    *)
(* handle. The task remembers the duty of the body motor, whether the      *)
(* handle held a task and whether that task was alive when it was created. *)
WithMoodTask(tasks_now, kind, duty) ==
    IF kind = "none" THEN tasks_now
    ELSE Append(tasks_now,
                [kind |-> kind, st |-> "created", cancelled |-> FALSE,
                 born_duty |-> duty,
                 born_had_prev |-> b_body_task # 0,
                 born_prev_alive |-> b_body_task # 0 /\ tasks_now[b_body_task].st # "done"])

(* The handler has returned *)
Returned == [start |-> "none", pc |-> "done", target |-> 0]

(* _on_ux_state runs up to its await, or from its await to its end: a task *)
(* that is not done is cancelled and awaited, and stop_body_motor is       *)
(* called after it; a task that is done, or no task, is left as it is.     *)
RunUxHandler(h) ==
    /\ h \in DOMAIN b_handlers
    /\ b_enabled
    /\ \/ /\ b_handlers[h].pc = "queued"
          /\ BodyTaskAlive(b_body_task)
          /\ b_tasks' = [b_tasks EXCEPT ![b_body_task].cancelled = TRUE]
          /\ b_handlers' = [b_handlers EXCEPT ![h].pc = "awaiting", ![h].target = b_body_task]
          /\ UNCHANGED <<b_body_task, b_body, b_anim>>
       \/ /\ b_handlers[h].pc = "queued"
          /\ ~BodyTaskAlive(b_body_task)
          /\ b_tasks' = WithMoodTask(b_tasks, b_handlers[h].start, b_body.duty)
          /\ b_body_task' = IF b_handlers[h].start = "none" THEN b_body_task
                            ELSE Len(b_tasks) + 1
          /\ b_handlers' = [b_handlers EXCEPT ![h] = Returned]
          /\ b_anim' = [b_anim EXCEPT !.now = b_handlers[h].start]
          /\ UNCHANGED b_body
       \/ /\ b_handlers[h].pc = "awaiting"
          /\ b_tasks[b_handlers[h].target].st = "done"
          /\ b_body' = [b_body EXCEPT !.duty = 0]
          /\ b_tasks' = WithMoodTask(b_tasks, b_handlers[h].start, 0)
          /\ b_body_task' = IF b_handlers[h].start = "none" THEN b_body_task
                            ELSE Len(b_tasks) + 1
          /\ b_handlers' = [b_handlers EXCEPT ![h] = Returned]
          /\ b_anim' = [b_anim EXCEPT !.now = b_handlers[h].start]
    /\ UNCHANGED <<b_hw, b_enabled, b_initialized, b_subscribed, b_periodic, b_calls,
                   b_touched, nonBodyVars>>

(* A mood task runs to its next await or to its end. _listening_animation  *)
(* sleeps, flaps at duty 70, sleeps, stops, and on cancellation calls      *)
(* stop_body_motor; head_turn(inf) sets its direction and duty 60 and      *)
(* returns; tail_flap sets its direction and duty 60, sleeps and stops the *)
(* motor. A cancelled task that never ran ends without running.            *)
RunBodyTask(t) ==
    /\ t \in DOMAIN b_tasks
    /\ b_tasks[t].st # "done"
    /\ LET task == b_tasks[t]
       IN  IF task.cancelled
           THEN /\ b_tasks' = [b_tasks EXCEPT ![t].st = "done"]
                /\ b_body' = IF task.kind = "flaps" /\ task.st # "created"
                             THEN [b_body EXCEPT !.duty = 0] ELSE b_body
           ELSE IF task.st = "created"
           THEN CASE task.kind = "flaps" ->
                       /\ b_tasks' = [b_tasks EXCEPT ![t].st = "waiting"]
                       /\ UNCHANGED b_body
                  [] task.kind = "head_turn" ->
                       /\ b_tasks' = [b_tasks EXCEPT ![t].st = "done"]
                       /\ b_body' = [duty |-> 60, in1 |-> FALSE, in2 |-> TRUE]
                  [] OTHER ->
                       /\ b_tasks' = [b_tasks EXCEPT ![t].st = "flapping"]
                       /\ b_body' = [duty |-> 60, in1 |-> TRUE, in2 |-> FALSE]
           ELSE IF task.st = "waiting"
           THEN /\ b_tasks' = [b_tasks EXCEPT ![t].st = "flapping"]
                /\ b_body' = [duty |-> 70, in1 |-> TRUE, in2 |-> FALSE]
           ELSE /\ b_tasks' = [b_tasks EXCEPT ![t].st = IF task.kind = "flaps" THEN "waiting"
                                                        ELSE "done"]
                /\ b_body' = [b_body EXCEPT !.duty = 0]
    /\ UNCHANGED <<b_hw, b_enabled, b_initialized, b_subscribed, b_handlers, b_body_task,
                   b_periodic, b_calls, b_touched, b_anim, nonBodyVars>>

(* Every ux.state event published so far has been handled to its end *)
HandlersIdle == \A h \in DOMAIN b_handlers : b_handlers[h].pc = "done"

(* _periodic_idle_flap: a flap at duty 60 when no mood task is alive, and  *)
(* its end 0.3 s later.                                                    *)
PeriodicFlap ==
    /\ b_anim' = [b_anim EXCEPT !.flap = IF HandlersIdle THEN b_anim.now ELSE "none"]
    /\ \/ /\ b_periodic = "waiting"
          /\ ~BodyTaskAlive(b_body_task)
          /\ b_periodic' = "flapping"
          /\ b_body' = [duty |-> 60, in1 |-> TRUE, in2 |-> FALSE]
       \/ /\ b_periodic = "flapping"
          /\ b_periodic' = "waiting"
          /\ b_body' = [b_body EXCEPT !.duty = 0]
    /\ UNCHANGED <<b_hw, b_enabled, b_initialized, b_subscribed, b_handlers, b_tasks,
                   b_body_task, b_calls, b_touched, nonBodyVars>>

ConstructAny == \E hw \in HwModes : Construct(hw)

CallUnavailableAny ==
    \E op \in {"tail_flap", "head_turn", "stop_body_motor", "stop"} : CallUnavailable(op)

UxStateAny == \E mood \in Moods : UxState(mood)

RunUxHandlerAny == \E h \in DOMAIN b_handlers : RunUxHandler(h)

RunBodyTaskAny == \E t \in DOMAIN b_tasks : RunBodyTask(t)

BodyNext ==
    \/ ConstructAny
    \/ StartBilly
    \/ CallUnavailableAny
    \/ UxStateAny
    \/ RunUxHandlerAny
    \/ RunBodyTaskAny
    \/ PeriodicFlap

BodySpec == BusInit /\ [][BodyNext]_vars

(* C21: whenever BillyBass creates a mood task for a ux.state event, the   *)
(* task the handle held before has been cancelled or awaited to its end    *)
(* and the body motor has been stopped, PWM duty 0; so a head turn is not  *)
(* left engaged when another mood replaces it.                             *)
C21_StoppedBeforeNewMood ==
    \A t \in DOMAIN b_tasks :
        b_tasks[t].born_had_prev => (b_tasks[t].born_duty = 0 /\ ~b_tasks[t].born_prev_alive)

(* C22: at no time are two mood tasks alive at once *)
C22_OneMoodTaskAlive ==
    Cardinality({t \in DOMAIN b_tasks : b_tasks[t].st # "done"}) <= 1

(* C24: with the driver library missing, the component disabled by         *)
(* configuration or the hardware failing to initialise, whatever is called *)
(* or published, BillyBass has subscribed no handler, started no task and  *)
(* written to no pin.                                                      *)
C24_InertWithoutHardware ==
    b_hw \in {"no_driver", "disabled", "init_fails"} =>
        /\ ~b_subscribed
        /\ ~b_initialized
        /\ b_handlers = <<>>
        /\ b_tasks = <<>>
        /\ b_periodic = "none"
        /\ ~b_touched
        /\ b_body = BodyRest

C24_Witness ==
    /\ b_hw = "init_fails"
    /\ ~b_enabled
    /\ b_calls = MaxCalls
    /\ ~b_touched
    /\ ~b_subscribed

(* The animation of the mood that is in effect: the ux.state handled last, *)
(* with no later ux.state event waiting or being handled.                  *)
InEffect(kind) == HandlersIdle /\ b_anim.now = kind

(* C32: the periodic idle flap writes the direction or the duty of the     *)
(* body motor only when no other body animation is active: never while a   *)
(* thinking, listening or speaking mood is in effect.                      *)
C32_FlapOnlyWhenIdle == b_anim.flap \notin {"flaps", "head_turn"}

(* The head turn of the mood in effect has run *)
HeadTurned ==
    /\ InEffect("head_turn")
    /\ b_body_task # 0
    /\ b_tasks[b_body_task].kind = "head_turn"
    /\ b_tasks[b_body_task].st = "done"

(* C33: from the head turn of a ux.state speaking until the next ux.state  *)
(* event is handled, the body motor is driven in the head-turn direction   *)
(* with a duty above 0; nothing stops or redirects it in between.          *)
C33_HeadTurnedWhileSpeaking ==
    HeadTurned => (b_body.duty > 0 /\ ~b_body.in1 /\ b_body.in2)

(* C23: once BillyBass has handled an audio.playback.end, the mouth motor  *)
(* has gone through the close pulse to its rest position, duty 0 and both  *)
(* direction pins low, and no mouth-sync task of that playback is running. *)
C23_RestAfterPlaybackEnd ==
    m_handler = "returned" => (m_motor = Rest /\ m_stop = "no" /\ ~TaskRunning /\ m_task # "ending")

(* The STT handler of turn r ended without a transcript: transcribe raised *)
TranscribeRaised(r) ==
    /\ \E t \in TurnTasks(r) : p_tasks[t].fn = "stt" /\ p_tasks[t].st = "done"
    /\ EventsOf(r, "stt.transcript") = {}

(* C25: when transcribe fails for a recording, the conversation loop is    *)
(* reset as for an empty stt.transcript, out of thinking to idle with the  *)
(* mood idle, and the recording yields no nlu.intent nor any later event.  *)
C25_TranscribeFailureResets ==
    \A r \in RecordedTurns :
        (TurnOver(r) /\ TranscribeRaised(r))
            => /\ state # "thinking"
               /\ \A e \in DOMAIN p_events : p_events[e].turn = r => e = r

(* The TTS handler of turn r ended in the exception of adapter.synth *)
SynthRaised(r) ==
    \E t \in TurnTasks(r) :
        p_tasks[t].fn = "tts" /\ p_tasks[t].failed /\ p_tasks[t].st = "done"

(* The events published in answer to a tts.request of turn r *)
AnswersToTtsRequest(r) ==
    {e \in DOMAIN p_events : p_events[e].cause \in EventsOf(r, "tts.request")}

(* C26: when synth fails for a tts.request, an event on the bus reports    *)
(* the failure, no tts.audio and no playback event is published for the    *)
(* request, the publish that delivered the request returns normally to its *)
(* caller, and the conversation loop keeps running.                        *)
C26_SynthFailureSurfaces ==
    \A r \in DOMAIN p_events :
        (p_events[r].cause = 0 /\ TurnOver(r) /\ SynthRaised(r))
            => /\ \E e \in AnswersToTtsRequest(r) : p_events[e].topic # "tts.audio"
               /\ EventsOf(r, "tts.audio") = {}
               /\ EventsOf(r, "audio.playback.start") = {}
               /\ EventsOf(r, "audio.playback.end") = {}
               /\ \A t \in TurnTasks(r) :
                     p_tasks[t].fn = "router_response" => ~p_tasks[t].failed
               /\ running

(* Every topic a component handles *)
HandledTopics == PipelineTopics \cup {"audio.recorded", "ux.state"}

(* A payload that fails the construction of the topic's event type is      *)
(* published from outside the handlers.                                    *)
InjectMalformed == \E topic \in HandledTopics : Inject(topic, FALSE, TRUE)

DropNext == InjectMalformed \/ PipeNext

(* The pipeline in each of its wirings, with malformed payloads *)
DropSpec == PipeInitWith(PipeEnvs \cup {PushEnv}) /\ [][DropNext]_vars

(* The event loop is about to run a handler on a malformed payload *)
MalformedDelivery == p_ready # <<>> /\ p_events[p_tasks[Head(p_ready)].ev].malformed

(* The handler drops the event: no publish, no change of the conversation  *)
(* state or mood, and the handler's task ends without an exception.        *)
Dropped ==
    /\ p_events' = p_events
    /\ state' = state
    /\ last_ux' = last_ux
    /\ p_tasks'[Head(p_ready)].st = "done"
    /\ ~p_tasks'[Head(p_ready)].failed

(* C27 as stated: every handler drops a malformed payload *)
C27_MalformedDropped == [][MalformedDelivery => Dropped]_vars

(* C27: a handler given a payload that fails the construction of its event *)
(* type raises nothing, publishes nothing and leaves its component's state *)
(* unchanged; except ConversationLoop._on_transcript, which in thinking    *)
(* resets the state to idle and publishes ux.state idle.                   *)
C27_MalformedDroppedOrReset ==
    [][MalformedDelivery =>
        IF p_tasks[Head(p_ready)].fn = "loop_transcript" /\ p_tasks[Head(p_ready)].pc = 0
           /\ state = "thinking"
        THEN /\ state' = "idle"
             /\ last_ux' = "idle"
             /\ Len(p_events') = Len(p_events) + 1
             /\ p_events'[Len(p_events')].topic = "ux.state"
             /\ ~p_tasks'[Head(p_ready)].failed
        ELSE Dropped]_vars

C27_Witness ==
    \E e \in DOMAIN p_events :
        /\ p_events[e].malformed
        /\ p_events[e].topic = "stt.transcript"
        /\ TurnOver(e)
        /\ \E u \in DOMAIN p_events : p_events[u].cause = e /\ p_events[u].topic = "ux.state"
        /\ \E t \in TurnTasks(e) : p_tasks[t].fn = "nlu" /\ p_tasks[t].st = "done"
        /\ state = "idle"

(* The events of a topic that Playback published for the tts.audio event   *)
(* a: they carry a's wav_path.                                             *)
PlaybackEvents(a, topic) ==
    {e \in DOMAIN p_events : p_events[e].cause = a /\ p_events[e].topic = topic}

(* Playback._on_audio has returned for the tts.audio event a *)
PlaybackReturned(a) ==
    \A t \in DOMAIN p_tasks :
        (p_tasks[t].ev = a /\ p_tasks[t].fn = "playback") => p_tasks[t].st = "done"

(* C28: every audio.playback.end published for a file comes after one     *)
(* audio.playback.start for the same file and correlation id, and every    *)
(* audio.playback.start is followed by one audio.playback.end and no more. *)
C28_PlaybackBracket ==
    \A a \in DOMAIN p_events :
        p_events[a].topic = "tts.audio" =>
            /\ \A e \in PlaybackEvents(a, "audio.playback.end") :
                  Cardinality({s \in PlaybackEvents(a, "audio.playback.start") :
                                  s < e /\ p_events[s].corr = p_events[e].corr}) = 1
            /\ \A s \in PlaybackEvents(a, "audio.playback.start") :
                  /\ Cardinality(PlaybackEvents(a, "audio.playback.end")) <= 1
                  /\ PlaybackReturned(a) =>
                        Cardinality({e \in PlaybackEvents(a, "audio.playback.end") : e > s}) = 1

(* The Playback tasks handling the tts.audio event a *)
PlaybackTasks(a) ==
    {t \in DOMAIN p_tasks : p_tasks[t].ev = a /\ p_tasks[t].fn = "playback"}

(* _safe_cleanup was handed to the executor: os.remove may have run *)
CleanupStarted(t) == p_tasks[t].pc >= 4

(* _safe_cleanup has finished in its worker thread *)
CleanupDone(t) == p_tasks[t].pc >= 4 /\ p_tasks[t].st # "working"

(* C29: the file of every tts.audio event handed to Playback is deleted in *)
(* the end, whether playback succeeded or failed, and is not deleted       *)
(* before audio.playback.end was published for it and the handlers of that *)
(* event have finished.                                                    *)
C29_ScratchFileDeleted ==
    \A a \in DOMAIN p_events :
        p_events[a].topic = "tts.audio" =>
            \A t \in PlaybackTasks(a) :
                /\ p_tasks[t].st = "done" => CleanupDone(t)
                /\ CleanupStarted(t) =>
                      \E e \in PlaybackEvents(a, "audio.playback.end") :
                          \A h \in DOMAIN p_tasks : p_tasks[h].ev = e => p_tasks[h].st = "done"

(* _run_loop: an exception leaves the iteration in state recording and the *)
(* except branch sets the state to idle. _detect_speech_end has moved the  *)
(* queue into the buffer when vad.is_speech or np.concatenate raises; in   *)
(* _stop_and_process sf.write raises before the segment is published. The  *)
(* buffer is left as it is.                                                *)
LoopError ==
    /\ running /\ loop_pc = "top" /\ state = "recording"
    /\ polled' = TRUE
    /\ audio_queue' = <<>>
    /\ stale_queued' = <<>>
    /\ recording_buffer' = recording_buffer \o audio_queue
    /\ in_episode' = Abandoned(recording_buffer \o audio_queue)
    /\ LET buffer == recording_buffer \o audio_queue
           recent == SubSeq(buffer, Len(buffer) - 1, Len(buffer))
       IN  \E raised_in \in {"detect", "write"} :
               IF raised_in = "write"
               THEN /\ Len(buffer) >= 2
                    /\ SpeechFrames(recent) = 0
                    /\ silence_frame_count + 1 >= SILENCE_FRAMES_THRESHOLD
                    /\ ~TooShort(buffer)
                    /\ silence_frame_count' = silence_frame_count + 1
               ELSE UNCHANGED silence_frame_count
    /\ state' = "idle"
    /\ since_entered' = 0
    /\ open_episodes' = open_episodes - 1
    /\ last_step' = Did("error", state, 0)
    /\ UNCHANGED <<running, speech_frame_count, thinking_since,
                   speaking_since, loop_pc, chain, last_ux, busVars, pipeVars, mouthVars,
                   bodyVars, syncVars, lifeVars>>

EpisodeNext ==
    \/ Start
    \/ \E kind \in ChunkKinds : AudioCallback(kind)
    \/ LoopIdle
    \/ LoopRecording
    \/ LoopError
    \/ LoopRecordedResume
    \/ LoopThinking
    \/ ChainTranscribe
    \/ ChainDeliverTranscript
    \/ ChainReply
    \/ ChainDeliverPlaybackStart
    \/ ChainPlay
    \/ ChainDeliverPlaybackEnd
    \/ Tick

(* The conversation loop on its own, with iterations that fail: no other   *)
(* publisher on the bus.                                                   *)
EpisodeSpec == Init /\ [][EpisodeNext]_vars

IsPrefix(short, long) ==
    Len(short) <= Len(long) /\ SubSeq(long, 1, Len(short)) = short

(* C30: while an episode is recorded, and when its segment is finalized,   *)
(* the buffer holds only blocks captured in this episode, none of an       *)
(* episode that was flushed, rejected as a false start or abandoned by an  *)
(* error reset; and the buffer grows only in state recording, by blocks    *)
(* appended to it.                                                         *)
C30_BufferOfOneEpisode ==
    /\ [](/\ Len(in_episode) = Len(recording_buffer)
          /\ state = "recording" => \A i \in DOMAIN in_episode : in_episode[i]
          /\ loop_pc = "awaiting_recorded" =>
                chain.duration_ms = DurationMs(SelectSeq(in_episode, LAMBDA b : b)))
    /\ [][Len(recording_buffer') > Len(recording_buffer) =>
            \/ state = "recording" /\ IsPrefix(recording_buffer, recording_buffer')
            \/ /\ state = "idle" /\ state' = "recording"
               /\ recording_buffer' = TakeChunks(audio_queue)]_vars

(* An episode begins while the buffer still holds the blocks of one that   *)
(* an error reset abandoned.                                               *)
C30_Witness ==
    /\ state = "recording"
    /\ last_step.kind = "onset"
    /\ last_step.arg >= 2
    /\ recording_buffer # <<>>
    /\ \A i \in DOMAIN in_episode : in_episode[i]

(* ClientAudioPush on the bus: started with a client URL in place of       *)
(* Playback (server mode), started without a URL, or started with a URL    *)
(* next to Playback (both built on one bus).                               *)
PushEnvs ==
    {PushEnv,
     [billy |-> FALSE, obs_first |-> FALSE, push |-> FALSE, playback |-> TRUE],
     [billy |-> FALSE, obs_first |-> FALSE, push |-> TRUE, playback |-> TRUE]}

PushSpec == PipeInitWith(PushEnvs) /\ [][PipeNext]_vars

PushTasks == {t \in DOMAIN p_tasks : p_tasks[t].fn = "client_push"}

(* The HTTP POST of _push_to_client was sent for the task's event *)
RequestSent(t) == p_tasks[t].st = "working" \/ p_tasks[t].pc >= 2

(* C31: without a client URL ClientAudioPush subscribes no handler; for a  *)
(* missing file it sends no HTTP request; a push that times out or gets an *)
(* error status raises nothing out of the handler; and in every case the   *)
(* publish of tts.audio returns normally to its caller and the other       *)
(* handlers of tts.audio run.                                              *)
C31_PushDegradesGracefully ==
    /\ [](/\ ~ClientPushWired => PushTasks = {}
          /\ \A t \in PushTasks :
                /\ ~p_tasks[t].raised
                /\ p_tasks[p_events[p_tasks[t].ev].publisher].st = "done" =>
                      /\ ~p_tasks[p_events[p_tasks[t].ev].publisher].raised
                      /\ \A h \in DOMAIN p_tasks :
                            p_tasks[h].ev = p_tasks[t].ev =>
                                p_tasks[h].st = "done" /\ p_tasks[h].pc >= 1)
    /\ [][\A t \in PushTasks :
            (p_ready # <<>> /\ Head(p_ready) = t) =>
                /\ (p_tasks[t].pc = 0 /\ p_tasks'[t].failed) =>
                      (p_tasks'[t].st = "done" /\ ~RequestSent(t)')
                /\ p_tasks[t].pc = 1 => p_tasks'[t].st = "done"]_vars

C31_Witness ==
    \E t \in PushTasks :
        /\ p_tasks[t].st = "done"
        /\ p_tasks[t].failed
        /\ p_tasks[t].pc = 2
        /\ p_tasks[p_events[p_tasks[t].ev].publisher].st = "done"
        /\ \E h \in DOMAIN p_tasks :
              /\ p_tasks[h].ev = p_tasks[t].ev
              /\ p_tasks[h].fn = "playback"
              /\ p_tasks[h].st = "done"

(* The blocks that a step of the loop takes from audio_queue *)
Taken == 1..(Len(audio_queue) - Len(audio_queue'))

(* C38: a block the microphone callback delivered while the state was      *)
(* thinking or speaking is never taken from the queue by onset detection   *)
(* or into a recording buffer: after the return to idle, onset detection   *)
(* works on audio captured after the return.                               *)
C38_NoStaleAudioUsed ==
    [][\A i \in Taken : ~stale_queued[i]]_vars


(***************************************************************************)
(* ConversationLoop.start and stop called again and again on one loop, and *)
(* the bus delivering an event to each registration of its handler.        *)
(***************************************************************************)
MaxStarts == 2
MaxLifeCalls == 3

nonLifeVars ==
    <<busVars, pipeVars, mouthVars, bodyVars, syncVars, in_episode, stale_queued,
      audio_queue, recording_buffer, silence_frame_count, speech_frame_count, thinking_since,
      chain, polled, open_episodes, last_step>>

(* start on a loop that is not running *)
StartAgain ==
    /\ \A T \in LoopTopics : loop_subs[T] < MaxStarts
    /\ Start

(* start on a running loop: the warning and the return *)
StartWhileRunning ==
    /\ running
    /\ life_calls < MaxLifeCalls
    /\ life_calls' = life_calls + 1
    /\ UNCHANGED <<loop_subs, fanout, state, running, loop_pc, last_ux, since_entered,
                   speaking_since, nonLifeVars>>

(* stop: running is cleared and ux.state idle published; the while loop of *)
(* _run_loop ends at its next test and start returns. The state and the    *)
(* subscriptions are left as they are.                                     *)
StopLoop ==
    /\ life_calls < MaxLifeCalls
    /\ life_calls' = life_calls + 1
    /\ running' = FALSE
    /\ loop_pc' = "not_started"
    /\ last_ux' = "idle"
    /\ UNCHANGED <<loop_subs, fanout, state, since_entered, speaking_since, nonLifeVars>>

LoopHandlerIgnoresOk(topic, flag, st) ==
    CASE topic = "audio.playback.start" ->
            IF st \in {"thinking", "idle"} THEN "speaking" ELSE st
      [] topic = "audio.playback.end" ->
            IF st \in {"thinking", "speaking"} THEN "idle" ELSE st
      [] topic = "stt.transcript" ->
            IF ~flag /\ st = "thinking" THEN "idle" ELSE st

(* _on_playback_start, _on_playback_end, _on_transcript: the state after   *)
(* one call of the handler; flag is ok, or that the transcript has text.   *)
LoopHandlerResult(topic, flag, st) ==
    CASE topic = "audio.playback.start" ->
            IF st \in {"thinking", "idle"} THEN "speaking" ELSE st
      [] topic = "audio.playback.end" ->
            IF flag /\ st \in {"thinking", "speaking"} THEN "idle" ELSE st
      [] topic = "stt.transcript" ->
            IF ~flag /\ st = "thinking" THEN "idle" ELSE st

(* Bus.publish runs the handler once for each time it is in the list: the  *)
(* state after that many calls, and how many of them assigned the state    *)
(* and published ux.state.                                                 *)
RECURSIVE Fanout(_, _, _, _)
Fanout(topic, flag, st, times) ==
    IF times = 0 THEN [state |-> st, updates |-> 0]
    ELSE LET after == LoopHandlerResult(topic, flag, st)
             rest == Fanout(topic, flag, after, times - 1)
         IN  [state |-> rest.state,
              updates |-> rest.updates + (IF after # st THEN 1 ELSE 0)]

(* An event of one of the loop's topics is published on the bus *)
Deliver(topic, flag) ==
    /\ loop_subs[topic] > 0
    /\ LET result == Fanout(topic, flag, state, loop_subs[topic])
       IN  /\ state' = result.state
           /\ fanout' = [topic |-> topic, flag |-> flag, invoked |-> loop_subs[topic],
                         updates |-> result.updates]
           /\ last_ux' = IF result.updates > 0 THEN result.state ELSE last_ux
           /\ since_entered' = IF result.updates > 0 THEN 0 ELSE since_entered
           /\ speaking_since' = IF result.updates > 0 /\ result.state = "speaking"
                                THEN 0 ELSE speaking_since
    /\ UNCHANGED <<loop_subs, life_calls, running, loop_pc, nonLifeVars>>

DeliverAny == \E topic \in LoopTopics, flag \in BOOLEAN : Deliver(topic, flag)

LifeNext ==
    \/ StartAgain
    \/ StartWhileRunning
    \/ StopLoop
    \/ DeliverAny

LifeSpec == PipeInitWith({NoBilly}) /\ [][LifeNext]_vars

(* C39: whatever the sequence of start and stop calls on one               *)
(* ConversationLoop, each of its three handlers is registered on the bus   *)
(* at most once, so that one bus event causes at most one state update and *)
(* one ux.state publication by the loop.                                   *)
C39_HandlersRegisteredOnce ==
    /\ \A T \in LoopTopics : loop_subs[T] <= 1
    /\ fanout.updates <= 1


(***************************************************************************)
(* The running loop with the bus delivering playback events                *)
(* to its handlers, while it polls the microphone for an onset and watches *)
(* its timeouts.                                                           *)
(***************************************************************************)
DeliverPlayback ==
    \E topic \in {"audio.playback.start", "audio.playback.end"}, flag \in BOOLEAN :
        (topic = "audio.playback.start" => flag) /\ Deliver(topic, flag)

EndNext ==
    \/ \E kind \in ChunkKinds : AudioCallback(kind)
    \/ LoopIdle
    \/ LoopThinking
    \/ LoopSpeaking
    \/ LoopTimeoutResume
    \/ DeliverPlayback
    \/ Tick

EndSpec == PipeInitWith({NoBilly}) /\ [][EndNext]_vars

(* An audio.playback.end with ok=false is delivered to the loop's handler  *)
(* in this step                                                            *)
FailedEndDelivered ==
    /\ fanout' # fanout \/ fanout'.updates > 0
    /\ fanout'.topic = "audio.playback.end"
    /\ ~fanout'.flag

(* An audio.playback.end with ok=true is delivered in this step *)
GoodEndDelivered ==
    /\ fanout' # fanout
    /\ fanout'.topic = "audio.playback.end"
    /\ fanout'.flag

(* C40: an audio.playback.end with ok=false changes neither the state, the *)
(* recording buffer nor the counters, in whichever state it arrives; a     *)
(* machine in speaking leaves speaking only when the 60 s speaking timeout *)
(* fires or an audio.playback.end with ok=true arrives.                    *)
C40_FailedEndChangesNothing ==
    /\ [][FailedEndDelivered =>
            UNCHANGED <<state, recording_buffer, audio_queue, silence_frame_count,
                        speech_frame_count, thinking_since, speaking_since, last_ux,
                        running, loop_pc>>]_vars
    /\ [][(state = "speaking" /\ state' # "speaking") =>
            \/ /\ speaking_since # NoAttr
               /\ SpeakingTimedOut(speaking_since)
               /\ loop_pc' = "timeout_publish"
            \/ GoodEndDelivered]_vars

C40_Witness ==
    /\ fanout.topic = "audio.playback.end"
    /\ ~fanout.flag
    /\ fanout.invoked = 1
    /\ state = "speaking"
    /\ speaking_since # NoAttr
    /\ speaking_since > 0
    /\ ~SpeakingTimedOut(speaking_since)


====
